---------------------------- MODULE Spec2Model ----------------------------
(***************************************************************************)
(* A model of the comment / moderation backend: the identity-token codec   *)
(* (generateJWT / verifyJWT), the role resolver and gate (getUserRole /    *)
(* hasMinRole), the vote handler and the moderation, report, comment and   *)
(* user handlers, as state machines over the persistent store.             *)
(*                                                                         *)
(* Strings of the program are sequences of character codes (ASCII codes,   *)
(* code points above 127 for non-ASCII characters); byte arrays are        *)
(* sequences of 0..255.                                                    *)
(***************************************************************************)
EXTENDS Integers, Sequences, FiniteSets, TLC

(***************************************************************************)
(* JavaScript values that flow through the codec.                          *)
(***************************************************************************)
Undefined == [t |-> "undefined", s |-> <<>>]
JNull == [t |-> "null", s |-> <<>>]
Str(s) == [t |-> "str", s |-> s]
Num(digits) == [t |-> "num", s |-> digits]

\* JavaScript truthiness of a scalar: undefined, null, "" and 0 are falsy.
Truthy(v) ==
  CASE v.t = "str" -> v.s # <<>>
    [] v.t = "num" -> v.s # <<48>>
    [] OTHER -> FALSE

\* The property key a scalar is coerced to in obj[key].
ToPropertyKey(v) ==
  CASE v.t = "undefined" -> <<117, 110, 100, 101, 102, 105, 110, 101, 100>>
    [] v.t = "null" -> <<110, 117, 108, 108>>
    [] OTHER -> v.s

(***************************************************************************)
(* Client type code mapping (part_001 lines 11-23).                        *)
(***************************************************************************)
Providers == {"anilist", "myanimelist", "simkl", "other"}

CLIENT_CODE_MAP ==
  [p \in Providers |->
     CASE p = "anilist" -> <<97, 108>>
       [] p = "myanimelist" -> <<109, 97, 108>>
       [] p = "simkl" -> <<115, 105, 109>>
       [] OTHER -> <<111, 116, 104>>]

\* Own keys of CLIENT_CODE_REVERSE_MAP, with the provider each maps to.
CLIENT_CODE_REVERSE_MAP ==
  {<<CLIENT_CODE_MAP[p], p>> : p \in Providers}

\* Keys every object literal inherits from Object.prototype: obj[key] finds
\* them (a function, truthy) although they are not own keys of the map.
ObjectPrototypeKeys ==
  { <<99, 111, 110, 115, 116, 114, 117, 99, 116, 111, 114>>,
    <<116, 111, 83, 116, 114, 105, 110, 103>>,
    <<118, 97, 108, 117, 101, 79, 102>>,
    <<104, 97, 115, 79, 119, 110, 80, 114, 111, 112, 101, 114, 116, 121>>,
    <<95, 95, 112, 114, 111, 116, 111, 95, 95>> }

KnownClientCodes == {e[1] : e \in CLIENT_CODE_REVERSE_MAP}

\* CLIENT_CODE_REVERSE_MAP[key] is truthy: an own key or an inherited one.
ReverseMapLookupTruthy(key) ==
  key \in KnownClientCodes \/ key \in ObjectPrototypeKeys

\* The provider a known client code maps back to.
ProviderOfCode(code) ==
  IF code \in KnownClientCodes
  THEN (CHOOSE e \in CLIENT_CODE_REVERSE_MAP : e[1] = code)[2]
  ELSE "other"

(***************************************************************************)
(* Base64: btoa / atob of the runtime, and the url-safe wrappers           *)
(* base64UrlEncode / base64UrlDecode (part_001 lines 26-42).               *)
(***************************************************************************)
\* The character of a 6-bit value in the standard alphabet A-Z a-z 0-9 + /.
B64Char(v) ==
  IF v < 26 THEN 65 + v
  ELSE IF v < 52 THEN 97 + (v - 26)
  ELSE IF v < 62 THEN 48 + (v - 52)
  ELSE IF v = 62 THEN 43
  ELSE 47

\* The 6-bit value of a character of the standard alphabet, -1 for any other.
B64Val(c) ==
  IF c >= 65 /\ c <= 90 THEN c - 65
  ELSE IF c >= 97 /\ c <= 122 THEN c - 97 + 26
  ELSE IF c >= 48 /\ c <= 57 THEN c - 48 + 52
  ELSE IF c = 43 THEN 62
  ELSE IF c = 47 THEN 63
  ELSE -1

\* The k-th output character of btoa: groups of three bytes give four
\* characters; a byte missing from the last group counts as 0 for the
\* character it shares and gives "=" for the character it alone fills.
btoaChar(b, k) ==
  LET g == (k - 1) \div 4
      j == (k - 1) % 4
      n == Len(b)
      b1 == b[3 * g + 1]
      b2 == IF 3 * g + 2 <= n THEN b[3 * g + 2] ELSE 0
      b3 == IF 3 * g + 3 <= n THEN b[3 * g + 3] ELSE 0
  IN IF j = 0 THEN B64Char(b1 \div 4)
     ELSE IF j = 1 THEN B64Char((b1 % 4) * 16 + (b2 \div 16))
     ELSE IF j = 2 THEN
       (IF 3 * g + 2 <= n THEN B64Char((b2 % 16) * 4 + (b3 \div 64)) ELSE 61)
     ELSE (IF 3 * g + 3 <= n THEN B64Char(b3 % 64) ELSE 61)

\* btoa(String.fromCharCode(...data)): standard base64 with padding.
btoa(b) == [k \in 1..(4 * ((Len(b) + 2) \div 3)) |-> btoaChar(b, k)]

\* str.replace(/from/g, to) for a single character.
ReplaceChar(s, from, to) ==
  [k \in 1..Len(s) |-> IF s[k] = from THEN to ELSE s[k]]

\* str.replace(/[cs]/g, '').
RemoveChars(s, cs) == SelectSeq(s, LAMBDA c : c \notin cs)

base64UrlEncode(data) ==
  RemoveChars(ReplaceChar(ReplaceChar(btoa(data), 43, 45), 47, 95), {61})

\* The k-th byte of the 6-bit values v: whole groups of four give three
\* bytes; a tail of two gives one byte and of three gives two bytes, the
\* bits left over being discarded whatever they are.
atobByte(v, k) ==
  LET g == (k - 1) \div 3
      j == (k - 1) % 3
  IN IF j = 0 THEN v[4 * g + 1] * 4 + (v[4 * g + 2] \div 16)
     ELSE IF j = 1 THEN (v[4 * g + 2] % 16) * 16 + (v[4 * g + 3] \div 4)
     ELSE (v[4 * g + 3] % 4) * 64 + v[4 * g + 4]

\* atob: the forgiving-base64 decode of the runtime.  ok = FALSE is the
\* InvalidCharacterError it throws.
atob(str) ==
  LET nows == RemoveChars(str, {9, 10, 12, 13, 32})
      n == Len(nows)
      cut == IF n % 4 = 0 /\ n >= 1 /\ nows[n] = 61
             THEN (IF n >= 2 /\ nows[n - 1] = 61 THEN 2 ELSE 1)
             ELSE 0
      data == SubSeq(nows, 1, n - cut)
      vals == [k \in 1..Len(data) |-> B64Val(data[k])]
  IN IF Len(data) % 4 = 1 \/ (\E k \in 1..Len(data) : vals[k] = -1)
     THEN [ok |-> FALSE, s |-> <<>>]
     ELSE [ok |-> TRUE,
           s |-> [k \in 1..((Len(data) * 6) \div 8) |-> atobByte(vals, k)]]

\* The "=" signs the while loop of base64UrlDecode appends.
PadToFour(str) ==
  str \o [k \in 1..((4 - (Len(str) % 4)) % 4) |-> 61]

base64UrlDecode(str) ==
  atob(PadToFour(ReplaceChar(ReplaceChar(str, 45, 43), 95, 47)))

(***************************************************************************)
(* TextEncoder.encode: UTF-8 (code points below 2048 are enough here).     *)
(***************************************************************************)
RECURSIVE EncodeRange(_, _, _)
\* The UTF-8 bytes of s[lo..hi], by halves.
EncodeRange(s, lo, hi) ==
  IF lo > hi THEN <<>>
  ELSE IF lo = hi THEN
    (IF s[lo] < 128 THEN <<s[lo]>>
     ELSE <<192 + (s[lo] \div 64), 128 + (s[lo] % 64)>>)
  ELSE LET mid == (lo + hi) \div 2
       IN EncodeRange(s, lo, mid) \o EncodeRange(s, mid + 1, hi)

TextEncoder_encode(s) == EncodeRange(s, 1, Len(s))

(***************************************************************************)
(* JSON.stringify of the token payload and JSON.parse of what comes back.  *)
(* The parser covers the JSON that can reach it here: an object whose      *)
(* members are "key":scalar, or a bare scalar; scalars are strings (with   *)
(* the escapes \" \\ \/), null and unsigned integers; no whitespace.       *)
(***************************************************************************)
RECURSIVE JsonEscape(_)
JsonEscape(s) ==
  IF s = <<>> THEN <<>>
  ELSE (IF Head(s) = 34 \/ Head(s) = 92 THEN <<92, Head(s)>> ELSE <<Head(s)>>)
       \o JsonEscape(Tail(s))

\* JSON.stringify of a string value.
JsonQuote(s) == <<34>> \o JsonEscape(s) \o <<34>>

\* JSON.stringify({ uid: userId, ct: clientCode }).
JSON_stringify_payload(userId, clientCode) ==
  <<123, 34, 117, 105, 100, 34, 58>> \o JsonQuote(userId)
    \o <<44, 34, 99, 116, 34, 58>> \o JsonQuote(clientCode) \o <<125>>

\* JSON.stringify({ alg: 'HS256', typ: 'JWT' }).
JSON_stringify_header ==
  <<123, 34, 97, 108, 103, 34, 58, 34, 72, 83, 50, 53, 54, 34, 44, 34,
    116, 121, 112, 34, 58, 34, 74, 87, 84, 34, 125>>

ParseFail == [ok |-> FALSE, v |-> Undefined, next |-> 0]

RECURSIVE ScanString(_, _, _)
\* The string whose opening quote precedes index j; acc is what was read.
ScanString(s, j, acc) ==
  IF j > Len(s) THEN ParseFail
  ELSE IF s[j] = 34 THEN [ok |-> TRUE, v |-> Str(acc), next |-> j + 1]
  ELSE IF s[j] = 92 THEN
    (IF j + 1 <= Len(s) /\ s[j + 1] \in {34, 92, 47}
     THEN ScanString(s, j + 2, Append(acc, s[j + 1]))
     ELSE ParseFail)
  ELSE IF s[j] < 32 THEN ParseFail
  ELSE ScanString(s, j + 1, Append(acc, s[j]))

RECURSIVE ScanDigits(_, _)
\* The index after the run of digits that starts at j.
ScanDigits(s, j) ==
  IF j <= Len(s) /\ s[j] >= 48 /\ s[j] <= 57 THEN ScanDigits(s, j + 1) ELSE j

ParseScalar(s, i) ==
  IF i > Len(s) THEN ParseFail
  ELSE IF s[i] = 34 THEN ScanString(s, i + 1, <<>>)
  ELSE IF i + 3 <= Len(s) /\ SubSeq(s, i, i + 3) = <<110, 117, 108, 108>>
    THEN [ok |-> TRUE, v |-> JNull, next |-> i + 4]
  ELSE IF s[i] >= 48 /\ s[i] <= 57 THEN
    LET e == ScanDigits(s, i) IN
    IF s[i] = 48 /\ e > i + 1 THEN ParseFail
    ELSE [ok |-> TRUE, v |-> Num(SubSeq(s, i, e - 1)), next |-> e]
  ELSE ParseFail

ObjFail == [ok |-> FALSE, entries |-> <<>>, next |-> 0]

RECURSIVE ParseMembers(_, _, _)
\* The members of an object from index i (after "{" or ","), up to "}".
ParseMembers(s, i, acc) ==
  IF i > Len(s) \/ s[i] # 34 THEN ObjFail
  ELSE
    LET k == ScanString(s, i + 1, <<>>) IN
    IF ~k.ok \/ k.next > Len(s) \/ s[k.next] # 58 THEN ObjFail
    ELSE
      LET val == ParseScalar(s, k.next + 1) IN
      IF ~val.ok \/ val.next > Len(s) THEN ObjFail
      ELSE
        LET acc2 == Append(acc, [k |-> k.v.s, v |-> val.v]) IN
        IF s[val.next] = 125
        THEN [ok |-> TRUE, entries |-> acc2, next |-> val.next + 1]
        ELSE IF s[val.next] = 44 THEN ParseMembers(s, val.next + 1, acc2)
        ELSE ObjFail

\* JSON.parse: ok = FALSE is the SyntaxError it throws; kind tells an object
\* from a scalar.
JSON_parse(s) ==
  IF s = <<>> THEN [ok |-> FALSE, kind |-> "none", entries |-> <<>>, v |-> Undefined]
  ELSE IF s[1] = 123 THEN
    LET o == IF Len(s) >= 2 /\ s[2] = 125
             THEN [ok |-> TRUE, entries |-> <<>>, next |-> 3]
             ELSE ParseMembers(s, 2, <<>>)
    IN [ok |-> o.ok /\ o.next = Len(s) + 1, kind |-> "obj",
        entries |-> o.entries, v |-> Undefined]
  ELSE
    LET r == ParseScalar(s, 1)
    IN [ok |-> r.ok /\ r.next = Len(s) + 1, kind |-> "scalar",
        entries |-> <<>>, v |-> r.v]

RECURSIVE GetProperty(_, _, _)
\* obj[key] on a parsed object: the last member named key, else undefined.
GetProperty(entries, key, i) ==
  IF i = 0 THEN Undefined
  ELSE IF entries[i].k = key THEN entries[i].v
  ELSE GetProperty(entries, key, i - 1)

(***************************************************************************)
(* HMAC-SHA256 (part_001 lines 45-77).  The runtime's primitive is         *)
(* modelled as a keyed polynomial hash of the key and the message, spread  *)
(* over a tag of HmacTagLen bytes: the tag is a function of (key, message) *)
(* and two messages that differ in one character never share a tag.        *)
(***************************************************************************)
HmacTagLen == 32

RECURSIVE HashMix(_, _, _, _)
\* acc after absorbing b[lo..hi] byte by byte (evaluated by halves; acc is
\* never negative, the test only fixes its value before the descent).
HashMix(acc, b, lo, hi) ==
  IF acc < 0 \/ lo > hi THEN acc
  ELSE IF lo = hi THEN (acc * 31 + b[lo] + 1) % 65521
  ELSE HashMix(HashMix(acc, b, lo, (lo + hi) \div 2), b, (lo + hi) \div 2 + 1, hi)

\* The HmacTagLen bytes of the tag whose digest is h.
HmacTag(h) ==
  [k \in 1..HmacTagLen |->
     IF k = 1 THEN h \div 256
     ELSE IF k = 2 THEN h % 256
     ELSE (h * k + k * k) % 256]

signHMAC(data, secret) ==
  LET keyData == TextEncoder_encode(secret)
      messageData == TextEncoder_encode(data)
      keyed == (HashMix(7, keyData, 1, Len(keyData)) * 31 + 3) % 65521
  IN HmacTag(HashMix(keyed, messageData, 1, Len(messageData)))

\* Variant of verifyHMAC that accepts any tag of the right length.
verifyHMAC_lengthOnly(data, signature, secret) ==
  Len(signature) = HmacTagLen

\* crypto.subtle.verify: the tag is recomputed and compared in full.
verifyHMAC(data, signature, secret) ==
  signature = signHMAC(data, secret)

(***************************************************************************)
(* generateJWT / verifyJWT (part_001 lines 85-172).                        *)
(***************************************************************************)
\* The token of generateJWT(userId, clientType); threw = TRUE is the Error
\* thrown when JWT_SECRET is not set.
generateJWT(userId, clientType, secret) ==
  IF secret = <<>> THEN [threw |-> TRUE, token |-> <<>>]
  ELSE
    LET clientCode == IF clientType \in Providers
                      THEN CLIENT_CODE_MAP[clientType]
                      ELSE <<111, 116, 104>>
        headerEncoded == base64UrlEncode(TextEncoder_encode(JSON_stringify_header))
        payloadEncoded ==
          base64UrlEncode(TextEncoder_encode(JSON_stringify_payload(userId, clientCode)))
        dataToSign == headerEncoded \o <<46>> \o payloadEncoded
        signatureEncoded == base64UrlEncode(signHMAC(dataToSign, secret))
    IN [threw |-> FALSE, token |-> dataToSign \o <<46>> \o signatureEncoded]

\* token.split(sep): one part more than there are separators, each part
\* the characters between two neighbouring separators.
Split(s, sep) ==
  LET P == {i \in 1..Len(s) : s[i] = sep}
      nth(k) == CHOOSE p \in P : Cardinality({q \in P : q <= p}) = k
      n == Cardinality(P) + 1
  IN [k \in 1..n |->
        SubSeq(s, IF k = 1 THEN 1 ELSE nth(k - 1) + 1,
                  IF k = n THEN Len(s) ELSE nth(k) - 1)]

\* What verifyJWT returns for "invalid": null.
NullPayload == [valid |-> FALSE, threw |-> FALSE, uid |-> Undefined, ct |-> Undefined]

\* verifyJWT(token): token is a JavaScript value (a string, or undefined when
\* the request carries none).  Every exception inside the try block is
\* caught and gives null, so threw is never TRUE.
verifyJWT(token, secret) ==
  IF secret = <<>> THEN NullPayload
  ELSE IF token.t # "str" THEN NullPayload        \* token.split throws
  ELSE
    LET parts == Split(token.s, 46) IN
    IF Len(parts) # 3 THEN NullPayload
    ELSE
      LET dataToSign == parts[1] \o <<46>> \o parts[2]
          signature == base64UrlDecode(parts[3])
      IN
      IF ~signature.ok THEN NullPayload            \* atob throws
      ELSE IF ~verifyHMAC(dataToSign, signature.s, secret) THEN NullPayload
      ELSE
        LET payloadStr == atob(ReplaceChar(ReplaceChar(parts[2], 45, 43), 95, 47)) IN
        IF ~payloadStr.ok THEN NullPayload         \* atob throws
        ELSE
          LET payload == JSON_parse(payloadStr.s) IN
          IF ~payload.ok THEN NullPayload          \* JSON.parse throws
          ELSE IF payload.kind = "scalar" /\ payload.v.t = "null"
            THEN NullPayload                       \* null.uid throws
          ELSE
            LET uid == IF payload.kind = "obj"
                       THEN GetProperty(payload.entries, <<117, 105, 100>>,
                                        Len(payload.entries))
                       ELSE Undefined
                ct == IF payload.kind = "obj"
                      THEN GetProperty(payload.entries, <<99, 116>>,
                                       Len(payload.entries))
                      ELSE Undefined
            IN
            IF ~Truthy(uid) \/ ~Truthy(ct) THEN NullPayload
            ELSE IF ~ReverseMapLookupTruthy(ToPropertyKey(ct)) THEN NullPayload
            ELSE [valid |-> TRUE, threw |-> FALSE, uid |-> uid, ct |-> ct]

(***************************************************************************)
(* State.                                                                  *)
(***************************************************************************)
VARIABLES
  jwtSecret,   \* Deno.env JWT_SECRET: a string, <<>> when not set
  token,       \* the value handed to verifyJWT
  origin,      \* how that value came about
  verified,    \* what the last call of verifyJWT returned
  verifyMemo,  \* verifyJWT(t) for the tokens t that requests carry
  config,      \* getConfig(): the feature toggles of the environment
  now,         \* new Date(): the time of the server's clock, in hours
  comments,    \* table comments
  users,       \* table users
  mod_plus,    \* table mod_plus
  inflight,    \* vote requests between their read and their write
  voteLog,     \* vote requests answered 200, in the order of their writes
  body,        \* the JSON body a client sends, apart from its jwt_token
  prevResp,    \* the response of the request answered before the last
  resp,        \* the response of the last request answered
  background,  \* the promises handlers started and did not await
  cache        \* the module state of configCache.ts and its clock

codecVars == <<jwtSecret, token, origin, verified, verifyMemo>>
storeVars == <<config, now, comments, users, mod_plus>>
voteVars == <<inflight, voteLog>>
reqVars == <<body, prevResp>>
vars == <<jwtSecret, token, origin, verified, verifyMemo, config, now, comments,
          users, mod_plus, inflight, voteLog, body, prevResp, resp, background,
          cache>>

\* configCache.ts lines 12-22 as the module is loaded: cachedConfigs = {},
\* cacheTimestamp = 0, isRefreshing = false.  dateNow is Date.now() of the
\* instance, in seconds; env is the value of VOTING_ENABLED in the
\* environment; call is the last call of getConfig or getConfigs, with the
\* value it returned and whether it awaited a refresh.
NoCache ==
  [cachedConfigs |-> {}, cacheTimestamp |-> 0, isRefreshing |-> FALSE,
   dateNow |-> 0, env |-> "true",
   call |-> [fn |-> "none", key |-> "", returned |-> "none",
             awaited |-> FALSE, seq |-> 0]]

\* The fields of a request body, each absent: '' for a missing string,
\* <<>> for a missing id, 0 for a missing number.  reporter_id is the
\* user_id inside reporter_info when that is a valid object ("3").
NoBody ==
  [endpoint |-> "", action |-> "", comment_id |-> "", target_user_id |-> <<>>,
   target_client_type |-> "", reason |-> "", duration |-> 0,
   shadow_ban |-> FALSE, pin |-> "undefined", reporter_info |-> "missing",
   reporter_id |-> <<51>>, report_id |-> "", resolution |-> "",
   content |-> "", media_id |-> "", parent_id |-> ""]

(***************************************************************************)
(* The codec on its own: tokens are issued, altered, signed over arbitrary *)
(* payloads by a holder of the secret, or made up, and then verified.      *)
(***************************************************************************)
MaxSubjectLen == 2

\* Characters subject ids are drawn from: "1" and "é" (U+00E9).
SubjectAlphabet == {49, 233}

SubjectIds ==
  UNION {[1..n -> SubjectAlphabet] : n \in 1..MaxSubjectLen}

\* The value of JWT_SECRET when it is set.
Secret == <<115, 51, 99, 114, 51, 116>>

Unset == <<>>

\* Characters a token character is replaced by: "B", "X", "-", ".".
TamperChars == {66, 88, 45, 46}

\* Payload texts signed by a holder of the secret.
SignedPayloads ==
  { JSON_stringify_payload(<<49>>, <<97, 108>>),
    JSON_stringify_payload(<<49>>, <<120, 120>>),
    JSON_stringify_payload(<<49>>,
       <<99, 111, 110, 115, 116, 114, 117, 99, 116, 111, 114>>),
    JSON_stringify_payload(<<>>, <<97, 108>>),
    <<123, 34, 99, 116, 34, 58, 34, 97, 108, 34, 125>>,
    <<123, 34, 117, 105, 100, 34, 58, 34, 49, 34, 125>>,
    <<104, 101, 108, 108, 111>>,
    <<110, 117, 108, 108>>,
    <<53>>,
    <<123, 125>> }

\* header.payload.signature for a payload text, signed with the secret.
SignToken(payloadText, secret) ==
  LET dataToSign == base64UrlEncode(TextEncoder_encode(JSON_stringify_header))
                      \o <<46>> \o base64UrlEncode(TextEncoder_encode(payloadText))
  IN dataToSign \o <<46>> \o base64UrlEncode(signHMAC(dataToSign, secret))

\* Values that are no token at all: undefined, "", "ab", "a.b", "a.b.c.d",
\* and three segments whose signature is not base64 ("a.b.!").
CraftedInputs ==
  { Undefined, JNull, Str(<<>>), Str(<<97, 98>>), Str(<<97, 46, 98>>),
    Str(<<97, 46, 98, 46, 99, 46, 100>>), Str(<<97, 46, 98, 46, 33>>),
    Str(<<97, 46, 98, 46, 65>>), Str(<<46, 46>>) }

NoOrigin == [kind |-> "none", uid |-> <<>>, provider |-> "other", seg |-> 0,
             payload |-> <<>>]

NotVerified == [done |-> FALSE, result |-> NullPayload]

\* The segment (1 header, 2 payload, 3 signature) position i of s lies in.
SegmentOf(s, i) == 1 + Cardinality({k \in 1..(i - 1) : s[k] = 46})

InitCodec ==
  /\ jwtSecret = Secret
  /\ token = Undefined
  /\ origin = NoOrigin
  /\ verified = NotVerified
  /\ verifyMemo = <<>>

\* JWT_SECRET is removed from the environment.
UnsetSecret ==
  /\ jwtSecret # Unset
  /\ ~verified.done
  /\ jwtSecret' = Unset
  /\ UNCHANGED <<token, origin, verified, verifyMemo, storeVars, voteVars, background, cache, reqVars, resp>>

\* generateJWT(userId, clientType) is called at login.
Generate(userId, clientType) ==
  /\ origin.kind = "none"
  /\ LET g == generateJWT(userId, clientType, jwtSecret) IN
       IF g.threw
       THEN /\ token' = Undefined
            /\ origin' = [NoOrigin EXCEPT !.kind = "generate_threw"]
       ELSE /\ token' = Str(g.token)
            /\ origin' = [NoOrigin EXCEPT !.kind = "issued", !.uid = userId,
                                          !.provider = clientType]
  /\ UNCHANGED <<jwtSecret, verified, verifyMemo, storeVars, voteVars, background, cache, reqVars, resp>>

\* One character of an issued token, inside a segment, is replaced by c.
Tamper(i, c) ==
  /\ origin.kind = "issued"
  /\ ~verified.done
  /\ i \in 1..Len(token.s)
  /\ token.s[i] # 46
  /\ token.s[i] # c
  /\ token' = Str([token.s EXCEPT ![i] = c])
  /\ origin' = [origin EXCEPT !.kind = "tampered", !.seg = SegmentOf(token.s, i)]
  /\ UNCHANGED <<jwtSecret, verified, verifyMemo, storeVars, voteVars, background, cache, reqVars, resp>>

\* A holder of the secret signs a payload text of its own.
Sign(payloadText) ==
  /\ origin.kind = "none"
  /\ jwtSecret # Unset
  /\ token' = Str(SignToken(payloadText, jwtSecret))
  /\ origin' = [NoOrigin EXCEPT !.kind = "signed", !.payload = payloadText]
  /\ UNCHANGED <<jwtSecret, verified, verifyMemo, storeVars, voteVars, background, cache, reqVars, resp>>

\* A caller presents a value that was never a token.
Craft(v) ==
  /\ origin.kind = "none"
  /\ token' = v
  /\ origin' = [NoOrigin EXCEPT !.kind = "crafted"]
  /\ UNCHANGED <<jwtSecret, verified, verifyMemo, storeVars, voteVars, background, cache, reqVars, resp>>

\* verifyJWT(token) is called.
Verify ==
  /\ origin.kind \in {"issued", "tampered", "signed", "crafted"}
  /\ ~verified.done
  /\ verified' = [done |-> TRUE, result |-> verifyJWT(token, jwtSecret)]
  /\ UNCHANGED <<jwtSecret, token, origin, verifyMemo, storeVars, voteVars, background, cache, reqVars, resp>>

\* No request has been answered yet.
NoResponse == [op |-> "none", status |-> 0]

\* getConfig(): the auto-moderation thresholds with nothing set in the
\* environment (config.ts lines 51-53).
auto_warn_threshold == 3
auto_mute_threshold == 5
auto_ban_threshold == 10

\* getConfig() with no toggle set in the environment (config.ts lines 35-60).
DefaultConfig ==
  [system_enabled |-> TRUE, voting_enabled |-> TRUE, reporting_enabled |-> TRUE]

\* The codec runs against no table at all.
InitJWT ==
  /\ InitCodec
  /\ config = DefaultConfig
  /\ now = 0
  /\ background = {}
  /\ cache = NoCache
  /\ comments = <<>>
  /\ users = <<>>
  /\ mod_plus = {}
  /\ inflight = <<>>
  /\ voteLog = <<>>
  /\ body = NoBody
  /\ prevResp = NoResponse
  /\ resp = NoResponse

NextJWT ==
  \/ UnsetSecret
  \/ \E userId \in SubjectIds, clientType \in Providers : Generate(userId, clientType)
  \/ \E i \in 1..Len(token.s), c \in TamperChars : Tamper(i, c)
  \/ \E payloadText \in SignedPayloads : Sign(payloadText)
  \/ \E v \in CraftedInputs : Craft(v)
  \/ Verify

SpecJWT == InitJWT /\ [][NextJWT]_vars

\* C7: for every non-empty subject id and every provider, verifying the
\* token generated for them under the same secret returns that subject id
\* and a provider code that maps back to that provider.
C7_RoundTrip ==
  (origin.kind = "issued" /\ verified.done /\ jwtSecret # Unset) =>
    /\ verified.result.valid
    /\ verified.result.uid = Str(origin.uid)
    /\ verified.result.ct.s \in KnownClientCodes
    /\ ProviderOfCode(verified.result.ct.s) = origin.provider

\* C8: replacing one character of any segment of an issued token by a
\* different character makes verifyJWT return null.
C8_TamperedTokenRejected ==
  (origin.kind = "tampered" /\ verified.done) => ~verified.result.valid

\* The payload verifyJWT may return: a non-empty subject id and one of the
\* four provider codes al, mal, sim, oth.
WellFormedPayload(p) ==
  /\ p.uid.t = "str" /\ p.uid.s # <<>>
  /\ p.ct.t = "str"
  /\ p.ct.s \in {<<97, 108>>, <<109, 97, 108>>, <<115, 105, 109>>, <<111, 116, 104>>}

\* C9: verifyJWT never throws; it returns null for a value that is no
\* token, for a missing secret and for a malformed payload, and returns a
\* payload only when the payload is well formed.
C9_VerifyTotalAndStrict ==
  verified.done =>
    /\ ~verified.result.threw
    /\ (origin.kind = "crafted" \/ jwtSecret = Unset => ~verified.result.valid)
    /\ (verified.result.valid => WellFormedPayload(verified.result))

(***************************************************************************)
(* The vote ledger of a comment: column user_votes holds the JSON text of  *)
(* an object { voter id: 'upvote' | 'downvote' }.  The object is a         *)
(* sequence of members [k, v] in insertion order.                          *)
(***************************************************************************)
Upvote == Str(<<117, 112, 118, 111, 116, 101>>)
Downvote == Str(<<100, 111, 119, 110, 118, 111, 116, 101>>)
Remove == Str(<<114, 101, 109, 111, 118, 101>>)

RECURSIVE JsonMembers(_, _)
\* The members of entries from index i on, comma separated.
JsonMembers(entries, i) ==
  IF i > Len(entries) THEN <<>>
  ELSE (IF i > 1 THEN <<44>> ELSE <<>>)
       \o JsonQuote(entries[i].k) \o <<58>> \o JsonQuote(entries[i].v.s)
       \o JsonMembers(entries, i + 1)

\* JSON.stringify(userVotes).
JSON_stringify_object(entries) == <<123>> \o JsonMembers(entries, 1) \o <<125>>

\* userVotes[key]
ObjGet(entries, key) == GetProperty(entries, key, Len(entries))

\* Variant of ObjSet that adds a member whether or not key has one.
ObjSet_append(entries, key, val) ==
  Append(entries, [k |-> key, v |-> val])

\* userVotes[key] = val: an existing member keeps its place.
ObjSet(entries, key, val) ==
  IF \E i \in 1..Len(entries) : entries[i].k = key
  THEN [i \in 1..Len(entries) |->
          IF entries[i].k = key THEN [k |-> key, v |-> val] ELSE entries[i]]
  ELSE Append(entries, [k |-> key, v |-> val])

\* Variant of ObjDelete that leaves the member in place.
ObjDelete_keep(entries, key) == entries

\* delete userVotes[key]
ObjDelete(entries, key) == SelectSeq(entries, LAMBDA e : e.k # key)

\* comment.user_votes ? JSON.parse(comment.user_votes) : {}
ParseUserVotes(user_votes) ==
  IF Truthy(user_votes) THEN JSON_parse(user_votes.s).entries ELSE <<>>

\* Variant of voteScore that adds the counts.
voteScore_sum(upvotes, downvotes) == upvotes + downvotes

\* Variant of VoteCase in which a repeated vote does not toggle off.
VoteCase_noToggle(comment, userVotes, key, cur, vote_type) ==
  IF vote_type = Upvote THEN
    [up |-> IF cur = Upvote THEN comment.upvotes ELSE comment.upvotes + 1,
     down |-> IF cur = Downvote THEN comment.downvotes - 1
              ELSE comment.downvotes,
     uv |-> ObjSet(userVotes, key, Upvote), nv |-> Upvote]
  ELSE IF vote_type = Downvote THEN
    [up |-> IF cur = Upvote THEN comment.upvotes - 1 ELSE comment.upvotes,
     down |-> IF cur = Downvote THEN comment.downvotes
              ELSE comment.downvotes + 1,
     uv |-> ObjSet(userVotes, key, Downvote), nv |-> Downvote]
  ELSE
    [up |-> IF cur = Upvote THEN comment.upvotes - 1 ELSE comment.upvotes,
     down |-> IF cur = Downvote THEN comment.downvotes - 1
              ELSE comment.downvotes,
     uv |-> ObjDelete(userVotes, key), nv |-> JNull]

\* const voteScore = upvotes - downvotes (line 147).
voteScore(upvotes, downvotes) == upvotes - downvotes

\* The switch over vote_type (lines 93-144) for a voter whose ledger entry
\* is cur: the new counts, the new ledger and newVoteType.
VoteCase(comment, userVotes, key, cur, vote_type) ==
  IF vote_type = Upvote THEN
    (IF cur = Upvote THEN
       [up |-> comment.upvotes - 1, down |-> comment.downvotes,
        uv |-> ObjDelete(userVotes, key), nv |-> JNull]
     ELSE IF cur = Downvote THEN
       [up |-> comment.upvotes + 1, down |-> comment.downvotes - 1,
        uv |-> ObjSet(userVotes, key, Upvote), nv |-> Upvote]
     ELSE
       [up |-> comment.upvotes + 1, down |-> comment.downvotes,
        uv |-> ObjSet(userVotes, key, Upvote), nv |-> Upvote])
  ELSE IF vote_type = Downvote THEN
    (IF cur = Downvote THEN
       [up |-> comment.upvotes, down |-> comment.downvotes - 1,
        uv |-> ObjDelete(userVotes, key), nv |-> JNull]
     ELSE IF cur = Upvote THEN
       [up |-> comment.upvotes - 1, down |-> comment.downvotes + 1,
        uv |-> ObjSet(userVotes, key, Downvote), nv |-> Downvote]
     ELSE
       [up |-> comment.upvotes, down |-> comment.downvotes + 1,
        uv |-> ObjSet(userVotes, key, Downvote), nv |-> Downvote])
  ELSE
    [up |-> IF cur = Upvote THEN comment.upvotes - 1 ELSE comment.upvotes,
     down |-> IF cur = Downvote THEN comment.downvotes - 1
              ELSE comment.downvotes,
     uv |-> ObjDelete(userVotes, key), nv |-> JNull]

\* The columns written by the update (lines 150-160) and newVoteType.
VoteColumns(r) ==
  [upvotes |-> r.up, downvotes |-> r.down,
   vote_score |-> voteScore(r.up, r.down),
   user_votes |-> Str(JSON_stringify_object(r.uv)), newVoteType |-> r.nv]

\* Lines 88-147 on the parsed ledger.
VoteOnLedger(comment, userVotes, key, vote_type) ==
  VoteColumns(VoteCase(comment, userVotes, key, ObjGet(userVotes, key),
                       vote_type))

\* Lines 85-147: the ledger is parsed from the selected row.
VoteSwitch(comment, userId, vote_type) ==
  VoteOnLedger(comment, ParseUserVotes(comment.user_votes),
               ToPropertyKey(userId), vote_type)

(***************************************************************************)
(* The votes endpoint (votes/index.ts).  The handler suspends at its two   *)
(* store calls: a request is one step up to and including the select of    *)
(* the comment, and a second step from the switch to the response, whose   *)
(* update writes the four columns at once.  Requests of other invocations  *)
(* may run between the two.                                                *)
(***************************************************************************)
MaxVotes == 3

ReqSlots == {"r1", "r2"}

\* Subject ids of the voters: "1" and "2".
VoterIds == {<<49>>, <<50>>}

\* Tokens a vote request may carry: none, "x", and the voters' own, as
\* issued at login under the secret.
VoteTokens(secret) ==
  {Undefined, Str(<<120>>)}
    \cup {Str(generateJWT(v, "anilist", secret).token) : v \in VoterIds}

\* comment_id of a request: an existing comment, an unknown one, none.
VoteCommentIds == {"c1", "c9", ""}

\* vote_type of a request.
VoteTypes ==
  {Upvote, Downvote, Remove, Str(<<115, 105, 100, 101>>), Undefined}

validVoteTypes == {Upvote, Downvote, Remove}

\* A row of comments as inserted, before any vote.
NewComment(author, provider, user_votes) ==
  [user_id |-> author, client_type |-> provider,
   upvotes |-> 0, downvotes |-> 0, vote_score |-> 0, user_votes |-> user_votes]

Idle == [pc |-> "idle"]

\* verifyJWT is a function of the token and JWT_SECRET alone, and the
\* secret stays as it is while votes are handled: verifyMemo holds
\* verifyJWT(t) for every token t a vote request may carry.
InitVotes ==
  /\ jwtSecret = Secret
  /\ token = Undefined
  /\ origin = NoOrigin
  /\ verified = NotVerified
  /\ verifyMemo = [t \in VoteTokens(Secret) |-> verifyJWT(t, Secret)]
  /\ config \in {DefaultConfig, [DefaultConfig EXCEPT !.voting_enabled = FALSE]}
  /\ now = 0
  /\ background = {}
  /\ cache = NoCache
  /\ \E uv \in {JNull, Str(<<123, 125>>)} :
       comments = [c \in {"c1"} |-> NewComment(<<49>>, "anilist", uv)]
  /\ users = <<>>
  /\ mod_plus = {}
  /\ inflight = [r \in ReqSlots |-> Idle]
  /\ voteLog = <<>>
  /\ body = NoBody
  /\ prevResp = NoResponse
  /\ resp = NoResponse

VoteError(status, error) == [op |-> "vote", status |-> status, error |-> error]

\* Variant of VoteRequest that refuses the vote of the comment's author.
VoteRequest_noSelfVote(r, comment_id, vote_type, jwt_token) ==
  /\ inflight[r].pc = "idle"
  /\ Len(voteLog) + Cardinality({s \in ReqSlots : inflight[s].pc = "read"}) < MaxVotes
  /\ IF comment_id = "" \/ ~Truthy(vote_type) \/ ~Truthy(jwt_token) THEN
       /\ resp' = VoteError(400, "comment_id, vote_type, and jwt_token are required")
       /\ UNCHANGED inflight
     ELSE IF vote_type \notin validVoteTypes THEN
       /\ resp' = VoteError(400, "Invalid vote_type")
       /\ UNCHANGED inflight
     ELSE IF ~config.voting_enabled THEN
       /\ resp' = VoteError(503, "Voting is disabled")
       /\ UNCHANGED inflight
     ELSE IF ~verifyMemo[jwt_token].valid THEN
       /\ resp' = VoteError(401, "Invalid or expired token")
       /\ UNCHANGED inflight
     ELSE IF comment_id \notin DOMAIN comments THEN
       /\ resp' = VoteError(404, "Comment not found")
       /\ UNCHANGED inflight
     ELSE IF comments[comment_id].user_id = verifyMemo[jwt_token].uid.s THEN
       /\ resp' = VoteError(403, "Cannot vote on own comment")
       /\ UNCHANGED inflight
     ELSE
       /\ inflight' = [inflight EXCEPT ![r] =
            [pc |-> "read", comment_id |-> comment_id, vote_type |-> vote_type,
             userId |-> verifyMemo[jwt_token].uid,
             comment |-> comments[comment_id]]]
       /\ UNCHANGED resp
  /\ UNCHANGED <<codecVars, storeVars, voteLog, reqVars, background, cache>>

\* Lines 26-78: the request is read, validated and authenticated and the
\* comment is selected.
VoteRequest(r, comment_id, vote_type, jwt_token) ==
  /\ inflight[r].pc = "idle"
  /\ Len(voteLog) + Cardinality({s \in ReqSlots : inflight[s].pc = "read"}) < MaxVotes
  /\ IF comment_id = "" \/ ~Truthy(vote_type) \/ ~Truthy(jwt_token) THEN
       /\ resp' = VoteError(400, "comment_id, vote_type, and jwt_token are required")
       /\ UNCHANGED inflight
     ELSE IF vote_type \notin validVoteTypes THEN
       /\ resp' = VoteError(400, "Invalid vote_type")
       /\ UNCHANGED inflight
     ELSE IF ~config.voting_enabled THEN
       /\ resp' = VoteError(503, "Voting is disabled")
       /\ UNCHANGED inflight
     ELSE IF ~verifyMemo[jwt_token].valid THEN
       /\ resp' = VoteError(401, "Invalid or expired token")
       /\ UNCHANGED inflight
     ELSE IF comment_id \notin DOMAIN comments THEN
       /\ resp' = VoteError(404, "Comment not found")
       /\ UNCHANGED inflight
     ELSE
       /\ inflight' = [inflight EXCEPT ![r] =
            [pc |-> "read", comment_id |-> comment_id, vote_type |-> vote_type,
             userId |-> verifyMemo[jwt_token].uid,
             comment |-> comments[comment_id]]]
       /\ UNCHANGED resp
  /\ UNCHANGED <<codecVars, storeVars, voteLog, reqVars, background, cache>>

\* A promise a handler started without awaiting it: the notification
\* (queueDiscordNotification), the activity update of a users row
\* (updateUserCommentActivity, updateUserVoteActivity) or the media
\* enrichment of a comment (fetchAndCacheMediaInfo), started by the handler
\* of op for the comment id or the users row key.
NoKey == <<<<>>, "">>

Task(task, op, id, key) == [task |-> task, op |-> op, id |-> id, key |-> key]

\* Lines 170-175: updateUserVoteActivity(supabase, clientType, userId) is
\* started when a vote was cast, with the client_type of the comment.
VoteActivity(q, out) ==
  IF out.newVoteType = JNull THEN {}
  ELSE {Task("activity", "vote", "", <<q.userId.s, q.comment.client_type>>)}

\* Lines 150-186: the update of the comment with the columns out, and the
\* response.
VoteStore(q, out) ==
  /\ comments' = [comments EXCEPT ![q.comment_id] =
        [@ EXCEPT !.upvotes = out.upvotes, !.downvotes = out.downvotes,
                  !.vote_score = out.vote_score,
                  !.user_votes = out.user_votes]]
  /\ resp' = [op |-> "vote", status |-> 200, success |-> TRUE,
              voteScore |-> out.vote_score,
              upvotes |-> out.upvotes,
              downvotes |-> out.downvotes,
              userVote |-> out.newVoteType]
  /\ voteLog' = Append(voteLog, [comment_id |-> q.comment_id,
                                 userId |-> q.userId,
                                 vote_type |-> q.vote_type,
                                 read |-> q.comment])
  /\ background' = background \cup VoteActivity(q, out)

\* Lines 85-186: the switch, the update of the comment and the response.
VoteWrite(r) ==
  /\ inflight[r].pc = "read"
  /\ VoteStore(inflight[r],
               VoteSwitch(inflight[r].comment, inflight[r].userId,
                          inflight[r].vote_type))
  /\ inflight' = [inflight EXCEPT ![r] = Idle]
  /\ UNCHANGED <<codecVars, config, now, users, mod_plus, reqVars, cache>>

NextVotes ==
  \/ \E r \in ReqSlots, comment_id \in VoteCommentIds, vote_type \in VoteTypes,
        jwt_token \in DOMAIN verifyMemo : VoteRequest(r, comment_id, vote_type, jwt_token)
  \/ \E r \in ReqSlots : VoteWrite(r)

SpecVotes == InitVotes /\ [][NextVotes]_vars

(***************************************************************************)
(* Properties of the votes endpoint.                                       *)
(***************************************************************************)
VoterStates == {"no-vote", "upvoted", "downvoted"}

\* The transition table of a (comment, voter) pair: for the voter's state
\* and the request kind, the next state and the deltas of the two counts.
TransitionTable ==
  [p \in VoterStates \X {"upvote", "downvote", "remove"} |->
     CASE p = <<"no-vote", "upvote">> -> [next |-> "upvoted", up |-> 1, down |-> 0]
       [] p = <<"no-vote", "downvote">> -> [next |-> "downvoted", up |-> 0, down |-> 1]
       [] p = <<"no-vote", "remove">> -> [next |-> "no-vote", up |-> 0, down |-> 0]
       [] p = <<"upvoted", "upvote">> -> [next |-> "no-vote", up |-> -1, down |-> 0]
       [] p = <<"upvoted", "downvote">> -> [next |-> "downvoted", up |-> -1, down |-> 1]
       [] p = <<"upvoted", "remove">> -> [next |-> "no-vote", up |-> -1, down |-> 0]
       [] p = <<"downvoted", "downvote">> -> [next |-> "no-vote", up |-> 0, down |-> -1]
       [] p = <<"downvoted", "upvote">> -> [next |-> "upvoted", up |-> 1, down |-> -1]
       [] p = <<"downvoted", "remove">> -> [next |-> "no-vote", up |-> 0, down |-> -1]]

StateOfEntry(cur) ==
  IF cur = Upvote THEN "upvoted" ELSE IF cur = Downvote THEN "downvoted"
  ELSE "no-vote"

\* The state of voter userId in the ledger of a row of comments.
VoterState(row, userId) ==
  StateOfEntry(ObjGet(ParseUserVotes(row.user_votes), ToPropertyKey(userId)))

KindOf(vote_type) ==
  IF vote_type = Upvote THEN "upvote" ELSE IF vote_type = Downvote THEN "downvote"
  ELSE "remove"

UserVoteOf(state) ==
  IF state = "upvoted" THEN Upvote ELSE IF state = "downvoted" THEN Downvote
  ELSE JNull

\* Request q, which read row q.comment, wrote row after and answered
\* response as the table entry t prescribes.
FollowsTable(q, t, after, response) ==
  /\ VoterState(after, q.userId) = t.next
  /\ after.upvotes = q.comment.upvotes + t.up
  /\ after.downvotes = q.comment.downvotes + t.down
  /\ response.status = 200
  /\ response.upvotes = after.upvotes
  /\ response.downvotes = after.downvotes
  /\ response.voteScore = after.upvotes - after.downvotes
  /\ response.userVote = UserVoteOf(t.next)

\* C1: every successful vote request moves its voter from the state it has
\* in the row the request read to the next state of the transition table,
\* changes upvotes and downvotes of that row by the table's deltas, and
\* its response reports the upvotes, downvotes, voteScore and userVote of
\* the row it wrote (userVote null when the next state is no-vote).
C1_VoteFollowsTable ==
  [][\A r \in ReqSlots :
       (inflight[r].pc = "read" /\ inflight'[r].pc = "idle") =>
         FollowsTable(inflight[r],
                      TransitionTable[<<VoterState(inflight[r].comment,
                                                   inflight[r].userId),
                                        KindOf(inflight[r].vote_type)>>],
                      comments'[inflight[r].comment_id], resp')]_vars

\* A voter who had upvoted has downvoted: the response reports 0, 1, -1
\* and 'downvote'.
C1_Witness ==
  /\ Len(voteLog) >= 2
  /\ VoterState(voteLog[Len(voteLog)].read, voteLog[Len(voteLog)].userId) = "upvoted"
  /\ voteLog[Len(voteLog)].vote_type = Downvote
  /\ resp.status = 200
  /\ resp.upvotes = 0 /\ resp.downvotes = 1 /\ resp.voteScore = -1
  /\ resp.userVote = Downvote


\* The row of a comment before any vote: an empty ledger, counts 0.
UnvotedRow == NewComment(<<49>>, "anilist", JNull)

\* The number of ledger entries of a row with direction dir.
LedgerCount(entries, dir) ==
  Cardinality({i \in 1..Len(entries) : entries[i].v = dir})

LedgerSet(entries) == {entries[i] : i \in 1..Len(entries)}

\* Two rows hold the same ledger and the same counts.
SameVotes(a, b) ==
  /\ a.upvotes = b.upvotes
  /\ a.downvotes = b.downvotes
  /\ a.vote_score = b.vote_score
  /\ LedgerSet(ParseUserVotes(a.user_votes)) = LedgerSet(ParseUserVotes(b.user_votes))

\* The row after one vote request handled alone.
VotedRow(row, q) == [row EXCEPT
  !.upvotes = VoteSwitch(row, q.userId, q.vote_type).upvotes,
  !.downvotes = VoteSwitch(row, q.userId, q.vote_type).downvotes,
  !.vote_score = VoteSwitch(row, q.userId, q.vote_type).vote_score,
  !.user_votes = VoteSwitch(row, q.userId, q.vote_type).user_votes]

RECURSIVE OneAfterAnother(_, _, _, _)
\* The row after the requests log[order[i]], log[order[i+1]], ... handled
\* one after another.
OneAfterAnother(row, log, order, i) ==
  IF i > Len(order) THEN row
  ELSE OneAfterAnother(VotedRow(row, log[order[i]]), log, order, i + 1)

Orders(n) ==
  {o \in [1..n -> 1..n] : \A i, j \in 1..n : o[i] = o[j] => i = j}

\* C2: vote requests on one comment are serialized: the ledger and the
\* counts of the comment equal the result of applying the requests that
\* returned success one after another in some order, so that no such
\* request has its transition lost.
C2_VotesSerialized ==
  \A c \in DOMAIN comments :
    \E o \in Orders(Len(voteLog)) :
      SameVotes(comments[c], OneAfterAnother(UnvotedRow, voteLog, o, 1))

\* C3: in every state of a comment reached by vote requests, interleaved
\* or not, from an empty ledger with upvotes = downvotes = 0, vote_score
\* is upvotes - downvotes, upvotes is the number of ledger entries with
\* direction up and downvotes the number of those with direction down.
C3_CountsMatchLedger ==
  \A c \in DOMAIN comments :
    /\ comments[c].vote_score = comments[c].upvotes - comments[c].downvotes
    /\ comments[c].upvotes =
         LedgerCount(ParseUserVotes(comments[c].user_votes), Upvote)
    /\ comments[c].downvotes =
         LedgerCount(ParseUserVotes(comments[c].user_votes), Downvote)

\* Two requests read the same row and both wrote it; one entry is up and
\* one is down.
C3_Witness ==
  /\ Len(voteLog) = 3
  /\ voteLog[2].read = voteLog[3].read
  /\ comments["c1"].upvotes = 1
  /\ comments["c1"].downvotes = 1
  /\ comments["c1"].vote_score = 0

(***************************************************************************)
(* Roles (shared/config.ts).  Table mod_plus holds one row per privileged  *)
(* user_id; a user without a row has role 'user'.                          *)
(***************************************************************************)
Roles == {"user", "moderator", "admin", "super_admin"}

roleHierarchy == [user |-> 0, moderator |-> 1, admin |-> 2, super_admin |-> 3]

\* roleHierarchy[role]: a number, or undefined (NotANumber) for a key the
\* object does not hold.
RoleLevel(role) ==
  IF role \in DOMAIN roleHierarchy THEN roleHierarchy[role] ELSE -1

\* a >= b of two lookups: false when either is undefined.
LevelAtLeast(a, b) == a >= 0 /\ b >= 0 /\ a >= b

\* select('role').eq('user_id', userId).single(): an error unless exactly
\* one row matches.
SelectRoleSingle(rows, userId) ==
  IF Cardinality({r \in rows : r.user_id = userId}) = 1
  THEN [error |-> FALSE, role |-> (CHOOSE r \in rows : r.user_id = userId).role]
  ELSE [error |-> TRUE, role |-> ""]

\* Variant of getUserRole that takes a user without a row for a moderator.
getUserRole_lenient(rows, userId) ==
  IF SelectRoleSingle(rows, userId).error THEN "moderator"
  ELSE SelectRoleSingle(rows, userId).role

\* getUserRole: any error gives 'user'; data?.role || 'user'.
getUserRole(rows, userId) ==
  IF SelectRoleSingle(rows, userId).error THEN "user"
  ELSE IF SelectRoleSingle(rows, userId).role = "" THEN "user"
  ELSE SelectRoleSingle(rows, userId).role

\* Variant of hasMinRole that asks for a strictly higher role.
hasMinRole_above(rows, userId, minRole) ==
  LevelAtLeast(RoleLevel(getUserRole(rows, userId)), RoleLevel(minRole) + 1)

\* hasMinRole: roleHierarchy[userRole] >= roleHierarchy[minRole].
hasMinRole(rows, userId, minRole) ==
  LevelAtLeast(RoleLevel(getUserRole(rows, userId)), RoleLevel(minRole))

\* The users whose roles are looked up: "1" and "2".
ActorIds == {<<49>>, <<50>>}

\* The contents of mod_plus: every user has no row or one row.
RoleTables ==
  {{[user_id |-> u, role |-> f[u]] : u \in {v \in ActorIds : f[v] # "none"}} :
     f \in [ActorIds -> Roles \cup {"none"}]}

InitGate ==
  /\ jwtSecret = Secret
  /\ token = Undefined
  /\ origin = NoOrigin
  /\ verified = NotVerified
  /\ verifyMemo = <<>>
  /\ config = DefaultConfig
  /\ now = 0
  /\ background = {}
  /\ cache = NoCache
  /\ comments = <<>>
  /\ users = <<>>
  /\ mod_plus \in RoleTables
  /\ inflight = <<>>
  /\ voteLog = <<>>
  /\ body = NoBody
  /\ prevResp = NoResponse
  /\ resp = NoResponse

\* A call hasMinRole(supabase, userId, minRole).
HasMinRoleCall(userId, minRole) ==
  /\ resp' = [op |-> "hasMinRole", status |-> 0, userId |-> userId,
              minRole |-> minRole,
              result |-> hasMinRole(mod_plus, userId, minRole)]
  /\ UNCHANGED <<codecVars, storeVars, voteVars, background, cache, reqVars>>

NextGate == \E userId \in ActorIds, minRole \in Roles : HasMinRoleCall(userId, minRole)

SpecGate == InitGate /\ [][NextGate]_vars

\* The total order of roles: user(0) < moderator(1) < admin(2) < super_admin(3).
Rank(role) ==
  CASE role = "user" -> 0 [] role = "moderator" -> 1
    [] role = "admin" -> 2 [] role = "super_admin" -> 3

\* The role stored for a user: the role of its row of mod_plus, 'user'
\* without one.
StoredRole(rows, userId) ==
  IF \E r \in rows : r.user_id = userId
  THEN (CHOOSE r \in rows : r.user_id = userId).role
  ELSE "user"

\* C4: hasMinRole(actor, minRole) is true if and only if the rank of the
\* actor's stored role is at least the rank of minRole, for the 16
\* combinations of stored role and minRole.
C4_HasMinRoleIffRank ==
  resp.op = "hasMinRole" =>
    (resp.result <=>
       Rank(StoredRole(mod_plus, resp.userId)) >= Rank(resp.minRole))

\* An admin asked for admin passes.
C4_Witness ==
  /\ resp.op = "hasMinRole"
  /\ StoredRole(mod_plus, resp.userId) = "admin"
  /\ resp.minRole = "admin"
  /\ resp.result

(***************************************************************************)
(* The moderation, reports and comments endpoints (part_005, part_003,     *)
(* comments/index.ts).  They verify the session tokens of shared/jwt.ts,   *)
(* whose payload is {user_id, username, client_type, role}.  Signing and   *)
(* checking are done by the djwt library: a token verifies if and only if  *)
(* it is one that generateJWT signed, and verifying returns the payload it *)
(* was signed over.  Timestamps are left out of the rows.                  *)
(***************************************************************************)
\* The tokens signed so far, with their payloads: user "1" logged in once
\* while its role was 'user' ("t1") and once while it was 'admin' ("t2"),
\* and user "2" logged in as super_admin ("t3").
SignedSessions ==
  (Str(<<116, 49>>) :> [user_id |-> <<49>>, username |-> "one",
                        client_type |-> "anilist", role |-> "user"])
  @@ (Str(<<116, 50>>) :> [user_id |-> <<49>>, username |-> "one",
                           client_type |-> "anilist", role |-> "admin"])
  @@ (Str(<<116, 51>>) :> [user_id |-> <<50>>, username |-> "two",
                           client_type |-> "anilist", role |-> "super_admin"])

\* jwt_token of a request to the moderation, reports and comments
\* endpoints: absent, the string "x", or a token of user "1".
SessionTokens ==
  {Undefined, Str(<<120>>), Str(<<116, 49>>), Str(<<116, 50>>)}

\* verifyJWT of shared/jwt.ts: the payload, or null (valid = FALSE) when
\* the secret is not set or verify throws.
verifyJWT_djwt(jwt_token, secret) ==
  IF secret # Unset /\ jwt_token \in DOMAIN SignedSessions
  THEN [valid |-> TRUE, user_id |-> SignedSessions[jwt_token].user_id,
        client_type |-> SignedSessions[jwt_token].client_type,
        role |-> SignedSessions[jwt_token].role]
  ELSE [valid |-> FALSE, user_id |-> <<>>, client_type |-> "", role |-> ""]

\* A row of comments written by author; by-columns hold <<>> for null and
\* moderation_action '' for null.  edit_history holds the array that the
\* column's JSON text denotes, <<>> for null.
CommentRow(author, provider, reports) ==
  [user_id |-> author, client_type |-> provider, deleted |-> FALSE,
   deleted_by |-> <<>>, pinned |-> FALSE, pinned_by |-> <<>>,
   locked |-> FALSE, locked_by |-> <<>>, moderated |-> FALSE,
   moderated_by |-> <<>>, moderation_action |-> "", moderation_reason |-> "",
   reported |-> Len(reports) > 0, report_count |-> Len(reports),
   reports |-> reports,
   report_status |-> IF Len(reports) > 0 THEN "pending" ELSE "none",
   content |-> "a", parent_id |-> "", edited |-> FALSE, edit_count |-> 0,
   edit_history |-> <<>>, media_title |-> ""]

\* An entry of the reports column; reviewed_by <<>> for null.
PendingReport(id, reporter_id, reason) ==
  [id |-> id, reporter_id |-> reporter_id, reason |-> reason,
   status |-> "pending", reviewed_by |-> <<>>]

\* A row of users; user_muted_until is 0 for null, else the hour at which
\* the mute ends; updated_at is the hour of the last update of the row by
\* getOrCreateUser or an activity update.
UserRow(warnings, banned, muted_until) ==
  [user_warnings |-> warnings, user_banned |-> banned,
   user_shadow_banned |-> FALSE, user_muted_until |-> muted_until,
   updated_at |-> 0]

\* The response of a request, with the token it carried, whether the
\* handler resolved a role from mod_plus, and the queue it returned; seq
\* alternates between 0 and 1 from one response to the next.
SeqOf(response) == IF "seq" \in DOMAIN response THEN response.seq ELSE 0

Response(op, status, jwt_token, roleResolved, queue) ==
  [op |-> op, status |-> status, jwt_token |-> jwt_token,
   roleResolved |-> roleResolved, queue |-> queue, seq |-> 1 - SeqOf(resp)]

\* A response that leaves the tables as they are.
Reject(op, status, jwt_token, roleResolved) ==
  /\ resp' = Response(op, status, jwt_token, roleResolved, {})
  /\ UNCHANGED <<comments, users>>

\* update(...).eq('id', id) of one comment, answered 200.
UpdateComment(op, jwt_token, row) ==
  /\ comments' = [comments EXCEPT ![body.comment_id] = row]
  /\ resp' = Response(op, 200, jwt_token, TRUE, {})
  /\ UNCHANGED users

\* update(...).eq('user_id', ..).eq('client_type', ..) of one user,
\* answered 200.
UpdateUser(op, jwt_token, row) ==
  /\ users' = [users EXCEPT ![<<body.target_user_id, body.target_client_type>>] = row]
  /\ resp' = Response(op, 200, jwt_token, TRUE, {})
  /\ UNCHANGED comments

\* id of the next comment inserted (a serial).
NewCommentId ==
  IF "c2" \notin DOMAIN comments THEN "c2"
  ELSE IF "c3" \notin DOMAIN comments THEN "c3"
  ELSE IF "c4" \notin DOMAIN comments THEN "c4" ELSE "c5"

\* The promises the handler of the request body started before it answered
\* response: none before an error response; after the insert of a comment
\* the activity update, the media enrichment and the notification
\* (comments/index.ts lines 245-281); the notification after an edit, a
\* delete, a report, a resolution 'resolved' and a warn, unwarn, mute,
\* unmute, ban or unban.
Started(response) ==
  IF response.status \notin {200, 201} THEN {}
  ELSE IF body.endpoint = "comments" /\ body.action = "create" THEN
    {Task("activity", "create", "",
          <<SignedSessions[response.jwt_token].user_id,
            SignedSessions[response.jwt_token].client_type>>),
     Task("media", "create", NewCommentId, NoKey),
     Task("notify", "create", "", NoKey)}
  ELSE IF \/ body.endpoint = "comments"
               /\ body.action \in {"edit", "delete", "mod_delete"}
          \/ body.endpoint = "reports" /\ body.action = "create"
          \/ body.endpoint = "reports" /\ body.action = "resolve"
               /\ body.resolution = "resolved"
          \/ body.endpoint = "moderation"
               /\ body.action \in {"warn_user", "unwarn_user", "mute_user",
                                   "unmute_user", "ban_user", "unban_user"}
  THEN {Task("notify", body.action, "", NoKey)}
  ELSE {}

\* What every request leaves alone, the record of the response before, and
\* the promises started.
Exchange ==
  /\ prevResp' = resp
  /\ background' = background \cup Started(resp')
  /\ UNCHANGED <<codecVars, config, now, mod_plus, voteVars, body, cache>>

\* part_005 lines 15-45 for action op: POST, body read, token verified.
ModerationCall(op) == body.endpoint = "moderation" /\ body.action = op

\* part_005 lines 95-178.
handlePinComment(jwt_token, userId) ==
  IF ~hasMinRole(mod_plus, userId, "moderator") THEN
    Reject("pin_comment", 403, jwt_token, TRUE)
  ELSE IF body.comment_id = "" THEN
    Reject("pin_comment", 400, jwt_token, TRUE)
  ELSE IF body.comment_id \notin DOMAIN comments THEN
    Reject("pin_comment", 404, jwt_token, TRUE)
  ELSE IF body.pin # "false" THEN
    UpdateComment("pin_comment", jwt_token,
      [comments[body.comment_id] EXCEPT
         !.pinned = TRUE, !.pinned_by = userId, !.moderated = TRUE,
         !.moderated_by = userId, !.moderation_action = "pin_comment",
         !.moderation_reason = body.reason])
  ELSE
    UpdateComment("pin_comment", jwt_token,
      [comments[body.comment_id] EXCEPT !.pinned = FALSE, !.pinned_by = <<>>])

PinComment(jwt_token) ==
  /\ ModerationCall("pin_comment")
  /\ IF ~verifyJWT_djwt(jwt_token, jwtSecret).valid
     THEN Reject("pin_comment", 401, jwt_token, FALSE)
     ELSE handlePinComment(jwt_token, verifyJWT_djwt(jwt_token, jwtSecret).user_id)
  /\ Exchange

\* part_005 lines 180-235; the update of a comment that does not exist
\* returns no row, which single() reports as an error: 500.
handleLockThread(jwt_token, userId) ==
  IF ~hasMinRole(mod_plus, userId, "moderator") THEN
    Reject("lock_thread", 403, jwt_token, TRUE)
  ELSE IF body.comment_id = "" THEN
    Reject("lock_thread", 400, jwt_token, TRUE)
  ELSE IF body.comment_id \notin DOMAIN comments THEN
    Reject("lock_thread", 500, jwt_token, TRUE)
  ELSE
    UpdateComment("lock_thread", jwt_token,
      [comments[body.comment_id] EXCEPT
         !.locked = TRUE, !.locked_by = userId, !.moderated = TRUE,
         !.moderated_by = userId, !.moderation_action = "lock_thread",
         !.moderation_reason = body.reason])

LockThread(jwt_token) ==
  /\ ModerationCall("lock_thread")
  /\ IF ~verifyJWT_djwt(jwt_token, jwtSecret).valid
     THEN Reject("lock_thread", 401, jwt_token, FALSE)
     ELSE handleLockThread(jwt_token, verifyJWT_djwt(jwt_token, jwtSecret).user_id)
  /\ Exchange

\* part_005 lines 237-292.
handleUnlockThread(jwt_token, userId) ==
  IF ~hasMinRole(mod_plus, userId, "moderator") THEN
    Reject("unlock_thread", 403, jwt_token, TRUE)
  ELSE IF body.comment_id = "" THEN
    Reject("unlock_thread", 400, jwt_token, TRUE)
  ELSE IF body.comment_id \notin DOMAIN comments THEN
    Reject("unlock_thread", 500, jwt_token, TRUE)
  ELSE
    UpdateComment("unlock_thread", jwt_token,
      [comments[body.comment_id] EXCEPT
         !.locked = FALSE, !.locked_by = <<>>, !.moderated = TRUE,
         !.moderated_by = userId, !.moderation_action = "unlock_thread",
         !.moderation_reason = body.reason])

UnlockThread(jwt_token) ==
  /\ ModerationCall("unlock_thread")
  /\ IF ~verifyJWT_djwt(jwt_token, jwtSecret).valid
     THEN Reject("unlock_thread", 401, jwt_token, FALSE)
     ELSE handleUnlockThread(jwt_token, verifyJWT_djwt(jwt_token, jwtSecret).user_id)
  /\ Exchange

MaxWarnings == 2

\* The users row a moderation request names.
TargetKey == <<body.target_user_id, body.target_client_type>>

\* Variant of handleWarnUser that bans the target when the count reaches
\* auto_ban_threshold.
handleWarnUser_autoBan(jwt_token, userId) ==
  IF ~hasMinRole(mod_plus, userId, "moderator") THEN
    Reject("warn_user", 403, jwt_token, TRUE)
  ELSE IF body.target_user_id = <<>> \/ body.target_client_type = "" \/ body.reason = "" THEN
    Reject("warn_user", 400, jwt_token, TRUE)
  ELSE IF TargetKey \notin DOMAIN users THEN
    Reject("warn_user", 404, jwt_token, TRUE)
  ELSE
    UpdateUser("warn_user", jwt_token,
      [users[TargetKey] EXCEPT
         !.user_warnings = @ + 1,
         !.user_banned = @ \/ users[TargetKey].user_warnings + 1 >= auto_ban_threshold])

\* part_005 lines 294-365.
handleWarnUser(jwt_token, userId) ==
  IF ~hasMinRole(mod_plus, userId, "moderator") THEN
    Reject("warn_user", 403, jwt_token, TRUE)
  ELSE IF body.target_user_id = <<>> \/ body.target_client_type = "" \/ body.reason = "" THEN
    Reject("warn_user", 400, jwt_token, TRUE)
  ELSE IF TargetKey \notin DOMAIN users THEN
    Reject("warn_user", 404, jwt_token, TRUE)
  ELSE
    UpdateUser("warn_user", jwt_token,
      [users[TargetKey] EXCEPT !.user_warnings = @ + 1])

\* warn_user while the count of the target is below cap.
WarnUserBelow(jwt_token, cap) ==
  /\ ModerationCall("warn_user")
  /\ TargetKey \in DOMAIN users => users[TargetKey].user_warnings < cap
  /\ IF ~verifyJWT_djwt(jwt_token, jwtSecret).valid
     THEN Reject("warn_user", 401, jwt_token, FALSE)
     ELSE handleWarnUser(jwt_token, verifyJWT_djwt(jwt_token, jwtSecret).user_id)
  /\ Exchange

WarnUser(jwt_token) == WarnUserBelow(jwt_token, MaxWarnings)

\* part_005 lines 367-438.
handleUnwarnUser(jwt_token, userId) ==
  IF ~hasMinRole(mod_plus, userId, "moderator") THEN
    Reject("unwarn_user", 403, jwt_token, TRUE)
  ELSE IF body.target_user_id = <<>> \/ body.target_client_type = "" THEN
    Reject("unwarn_user", 400, jwt_token, TRUE)
  ELSE IF TargetKey \notin DOMAIN users THEN
    Reject("unwarn_user", 404, jwt_token, TRUE)
  ELSE
    UpdateUser("unwarn_user", jwt_token,
      [users[TargetKey] EXCEPT !.user_warnings = IF @ > 0 THEN @ - 1 ELSE 0])

UnwarnUser(jwt_token) ==
  /\ ModerationCall("unwarn_user")
  /\ IF ~verifyJWT_djwt(jwt_token, jwtSecret).valid
     THEN Reject("unwarn_user", 401, jwt_token, FALSE)
     ELSE handleUnwarnUser(jwt_token, verifyJWT_djwt(jwt_token, jwtSecret).user_id)
  /\ Exchange

\* part_005 lines 440-514.
handleMuteUser(jwt_token, userId) ==
  IF ~hasMinRole(mod_plus, userId, "moderator") THEN
    Reject("mute_user", 403, jwt_token, TRUE)
  ELSE IF body.target_user_id = <<>> \/ body.target_client_type = "" \/ body.duration = 0 THEN
    Reject("mute_user", 400, jwt_token, TRUE)
  ELSE IF TargetKey \notin DOMAIN users THEN
    Reject("mute_user", 404, jwt_token, TRUE)
  ELSE
    UpdateUser("mute_user", jwt_token,
      [users[TargetKey] EXCEPT !.user_muted_until = now + body.duration])

MuteUser(jwt_token) ==
  /\ ModerationCall("mute_user")
  /\ IF ~verifyJWT_djwt(jwt_token, jwtSecret).valid
     THEN Reject("mute_user", 401, jwt_token, FALSE)
     ELSE handleMuteUser(jwt_token, verifyJWT_djwt(jwt_token, jwtSecret).user_id)
  /\ Exchange

\* part_005 lines 516-585.
handleUnmuteUser(jwt_token, userId) ==
  IF ~hasMinRole(mod_plus, userId, "moderator") THEN
    Reject("unmute_user", 403, jwt_token, TRUE)
  ELSE IF body.target_user_id = <<>> \/ body.target_client_type = "" THEN
    Reject("unmute_user", 400, jwt_token, TRUE)
  ELSE IF TargetKey \notin DOMAIN users THEN
    Reject("unmute_user", 404, jwt_token, TRUE)
  ELSE
    UpdateUser("unmute_user", jwt_token,
      [users[TargetKey] EXCEPT !.user_muted_until = 0])

UnmuteUser(jwt_token) ==
  /\ ModerationCall("unmute_user")
  /\ IF ~verifyJWT_djwt(jwt_token, jwtSecret).valid
     THEN Reject("unmute_user", 401, jwt_token, FALSE)
     ELSE handleUnmuteUser(jwt_token, verifyJWT_djwt(jwt_token, jwtSecret).user_id)
  /\ Exchange

\* Variant of handleBanUser that checks the role of the token's payload.
handleBanUser_tokenRole(jwt_token, userId) ==
  IF ~LevelAtLeast(RoleLevel(SignedSessions[jwt_token].role), RoleLevel("admin")) THEN
    Reject("ban_user", 403, jwt_token, TRUE)
  ELSE IF body.target_user_id = <<>> \/ body.target_client_type = "" \/ body.reason = "" THEN
    Reject("ban_user", 400, jwt_token, TRUE)
  ELSE IF TargetKey \notin DOMAIN users THEN
    Reject("ban_user", 404, jwt_token, TRUE)
  ELSE
    UpdateUser("ban_user", jwt_token,
      [users[TargetKey] EXCEPT !.user_banned = TRUE,
                               !.user_shadow_banned = body.shadow_ban])

\* part_005 lines 587-660.
handleBanUser(jwt_token, userId) ==
  IF ~hasMinRole(mod_plus, userId, "admin") THEN
    Reject("ban_user", 403, jwt_token, TRUE)
  ELSE IF body.target_user_id = <<>> \/ body.target_client_type = "" \/ body.reason = "" THEN
    Reject("ban_user", 400, jwt_token, TRUE)
  ELSE IF TargetKey \notin DOMAIN users THEN
    Reject("ban_user", 404, jwt_token, TRUE)
  ELSE
    UpdateUser("ban_user", jwt_token,
      [users[TargetKey] EXCEPT !.user_banned = TRUE,
                               !.user_shadow_banned = body.shadow_ban])

BanUser(jwt_token) ==
  /\ ModerationCall("ban_user")
  /\ IF ~verifyJWT_djwt(jwt_token, jwtSecret).valid
     THEN Reject("ban_user", 401, jwt_token, FALSE)
     ELSE handleBanUser(jwt_token, verifyJWT_djwt(jwt_token, jwtSecret).user_id)
  /\ Exchange

\* part_005 lines 662-734.
handleUnbanUser(jwt_token, userId) ==
  IF ~hasMinRole(mod_plus, userId, "admin") THEN
    Reject("unban_user", 403, jwt_token, TRUE)
  ELSE IF body.target_user_id = <<>> \/ body.target_client_type = "" THEN
    Reject("unban_user", 400, jwt_token, TRUE)
  ELSE IF TargetKey \notin DOMAIN users THEN
    Reject("unban_user", 404, jwt_token, TRUE)
  ELSE
    UpdateUser("unban_user", jwt_token,
      [users[TargetKey] EXCEPT !.user_banned = FALSE,
                               !.user_shadow_banned = FALSE])

UnbanUser(jwt_token) ==
  /\ ModerationCall("unban_user")
  /\ IF ~verifyJWT_djwt(jwt_token, jwtSecret).valid
     THEN Reject("unban_user", 401, jwt_token, FALSE)
     ELSE handleUnbanUser(jwt_token, verifyJWT_djwt(jwt_token, jwtSecret).user_id)
  /\ Exchange

\* The comments with reported = true and report_status = 'pending'.
PendingQueue ==
  {c \in DOMAIN comments :
     comments[c].reported /\ comments[c].report_status = "pending"}

\* part_005 lines 736-772.
handleGetQueue(jwt_token, userId) ==
  IF ~hasMinRole(mod_plus, userId, "moderator") THEN
    Reject("get_queue", 403, jwt_token, TRUE)
  ELSE
    /\ resp' = Response("get_queue", 200, jwt_token, TRUE, PendingQueue)
    /\ UNCHANGED <<comments, users>>

GetQueue(jwt_token) ==
  /\ ModerationCall("get_queue")
  /\ IF ~verifyJWT_djwt(jwt_token, jwtSecret).valid
     THEN Reject("get_queue", 401, jwt_token, FALSE)
     ELSE handleGetQueue(jwt_token, verifyJWT_djwt(jwt_token, jwtSecret).user_id)
  /\ Exchange

ModerationActions ==
  {"pin_comment", "lock_thread", "unlock_thread", "warn_user", "unwarn_user",
   "mute_user", "unmute_user", "ban_user", "unban_user", "get_queue"}

\* part_005 lines 35-45 and 79-83: the default branch of the switch.
ModerationInvalidAction(jwt_token) ==
  /\ body.endpoint = "moderation"
  /\ body.action \notin ModerationActions
  /\ IF ~verifyJWT_djwt(jwt_token, jwtSecret).valid
     THEN Reject(body.action, 401, jwt_token, FALSE)
     ELSE Reject(body.action, 400, jwt_token, FALSE)
  /\ Exchange

MaxReports == 2

\* id of the next report of a comment (report-<time>-<reporter>).
NewReportId(reports) == <<"r1", "r2", "r3", "r4">>[Len(reports) + 1]

validReasons ==
  {"spam", "offensive", "harassment", "spoiler", "nsfw", "off_topic", "other"}

\* The users row of the author of a comment is banned.
AuthorBanned(comment) ==
  /\ <<comment.user_id, comment.client_type>> \in DOMAIN users
  /\ users[<<comment.user_id, comment.client_type>>].user_banned

\* part_003 lines 16-73 for action op.
ReportsCall(op) == body.endpoint = "reports" /\ body.action = op

\* part_003 lines 75-206: the reporter is named by reporter_info; the
\* token of the request is not read.
handleCreateReport(jwt_token) ==
  IF body.comment_id = "" \/ body.reporter_info = "missing" \/ body.reason = "" THEN
    Reject("create", 400, jwt_token, FALSE)
  ELSE IF body.reporter_info # "valid" THEN
    Reject("create", 400, jwt_token, FALSE)
  ELSE IF body.reason \notin validReasons THEN
    Reject("create", 400, jwt_token, FALSE)
  ELSE IF body.comment_id \notin DOMAIN comments THEN
    Reject("create", 404, jwt_token, FALSE)
  ELSE IF comments[body.comment_id].deleted THEN
    Reject("create", 400, jwt_token, FALSE)
  ELSE IF AuthorBanned(comments[body.comment_id]) THEN
    Reject("create", 400, jwt_token, FALSE)
  ELSE
    /\ comments' = [comments EXCEPT ![body.comment_id] =
         [comments[body.comment_id] EXCEPT
            !.reported = TRUE,
            !.report_count = Len(comments[body.comment_id].reports) + 1,
            !.reports = Append(@, PendingReport(NewReportId(@),
                                                body.reporter_id,
                                                body.reason)),
            !.report_status = "pending"]]
    /\ resp' = Response("create", 201, jwt_token, FALSE, {})
    /\ UNCHANGED users

CreateReport(jwt_token) ==
  /\ ReportsCall("create")
  /\ body.comment_id \in DOMAIN comments =>
       Len(comments[body.comment_id].reports) < MaxReports
  /\ IF ~config.reporting_enabled
     THEN Reject("create", 503, jwt_token, FALSE)
     ELSE handleCreateReport(jwt_token)
  /\ Exchange

\* reports.findIndex(r => r.id === report_id), 0 for -1.
ReportIndex(reports, report_id) ==
  IF \E i \in 1..Len(reports) : reports[i].id = report_id
  THEN CHOOSE i \in 1..Len(reports) :
         /\ reports[i].id = report_id
         /\ \A j \in 1..(i - 1) : reports[j].id # report_id
  ELSE 0

\* The reports column with entry i resolved by userId.
ResolvedReports(reports, i, resolution, userId) ==
  [reports EXCEPT ![i] = [@ EXCEPT !.status = resolution, !.reviewed_by = userId]]

\* part_003 lines 208-331.
handleResolveReport(jwt_token, userId) ==
  IF ~hasMinRole(mod_plus, userId, "moderator") THEN
    Reject("resolve", 403, jwt_token, TRUE)
  ELSE IF body.resolution \notin {"resolved", "dismissed"} THEN
    Reject("resolve", 400, jwt_token, TRUE)
  ELSE IF body.comment_id \notin DOMAIN comments THEN
    Reject("resolve", 404, jwt_token, TRUE)
  ELSE IF ReportIndex(comments[body.comment_id].reports, body.report_id) = 0 THEN
    Reject("resolve", 404, jwt_token, TRUE)
  ELSE
    UpdateComment("resolve", jwt_token,
      [comments[body.comment_id] EXCEPT
         !.reports = ResolvedReports(@, ReportIndex(@, body.report_id),
                                     body.resolution, userId),
         !.report_status = body.resolution, !.moderated = TRUE,
         !.moderated_by = userId, !.moderation_action = "resolve_report"])

ResolveReport(jwt_token) ==
  /\ ReportsCall("resolve")
  /\ IF ~config.reporting_enabled THEN
       Reject("resolve", 503, jwt_token, FALSE)
     ELSE IF ~verifyJWT_djwt(jwt_token, jwtSecret).valid THEN
       Reject("resolve", 401, jwt_token, FALSE)
     ELSE
       handleResolveReport(jwt_token, verifyJWT_djwt(jwt_token, jwtSecret).user_id)
  /\ Exchange

\* part_003 lines 333-395.
handleReportsGetQueue(jwt_token, userId) ==
  IF ~hasMinRole(mod_plus, userId, "moderator") THEN
    Reject("get_queue", 403, jwt_token, TRUE)
  ELSE
    /\ resp' = Response("get_queue", 200, jwt_token, TRUE, PendingQueue)
    /\ UNCHANGED <<comments, users>>

ReportsGetQueue(jwt_token) ==
  /\ ReportsCall("get_queue")
  /\ IF ~config.reporting_enabled THEN
       Reject("get_queue", 503, jwt_token, FALSE)
     ELSE IF ~verifyJWT_djwt(jwt_token, jwtSecret).valid THEN
       Reject("get_queue", 401, jwt_token, FALSE)
     ELSE
       handleReportsGetQueue(jwt_token, verifyJWT_djwt(jwt_token, jwtSecret).user_id)
  /\ Exchange

\* part_003 lines 30-37: an action outside create, resolve, get_queue.
ReportsInvalidAction(jwt_token) ==
  /\ body.endpoint = "reports"
  /\ body.action \notin {"create", "resolve", "get_queue"}
  /\ Reject(body.action, 400, jwt_token, FALSE)
  /\ Exchange

\* comments/index.ts lines 28-63 for action op: the body is read, the
\* action checked, and a token that is present is verified and its
\* holder's role read from mod_plus.
CommentsCall(op) == body.endpoint = "comments" /\ body.action = op

\* if (jwt_token) { verifyJWT ... }: the token is present and invalid.
PresentInvalid(jwt_token) ==
  Truthy(jwt_token) /\ ~verifyJWT_djwt(jwt_token, jwtSecret).valid

\* Variant of handleModDeleteComment that selects the comment before it
\* checks the role.
handleModDeleteComment_lookupFirst(jwt_token, userId) ==
  IF body.comment_id \notin DOMAIN comments THEN
    Reject("mod_delete", 404, jwt_token, TRUE)
  ELSE IF ~hasMinRole(mod_plus, userId, "moderator") THEN
    Reject("mod_delete", 403, jwt_token, TRUE)
  ELSE
    UpdateComment("mod_delete", jwt_token,
      [comments[body.comment_id] EXCEPT
         !.deleted = TRUE, !.deleted_by = userId, !.moderated = TRUE,
         !.moderated_by = userId, !.moderation_action = "mod_delete"])

\* comments/index.ts lines 556-660 after the checks of comment_id and of
\* the token.
handleModDeleteComment(jwt_token, userId) ==
  IF ~hasMinRole(mod_plus, userId, "moderator") THEN
    Reject("mod_delete", 403, jwt_token, TRUE)
  ELSE IF body.comment_id \notin DOMAIN comments THEN
    Reject("mod_delete", 404, jwt_token, TRUE)
  ELSE
    UpdateComment("mod_delete", jwt_token,
      [comments[body.comment_id] EXCEPT
         !.deleted = TRUE, !.deleted_by = userId, !.moderated = TRUE,
         !.moderated_by = userId, !.moderation_action = "mod_delete"])

ModDeleteComment(jwt_token) ==
  /\ CommentsCall("mod_delete")
  /\ IF PresentInvalid(jwt_token) THEN
       Reject("mod_delete", 401, jwt_token, FALSE)
     ELSE IF body.comment_id = "" THEN
       Reject("mod_delete", 400, jwt_token, Truthy(jwt_token))
     ELSE IF ~verifyJWT_djwt(jwt_token, jwtSecret).valid THEN
       Reject("mod_delete", 401, jwt_token, FALSE)
     ELSE
       handleModDeleteComment(jwt_token, verifyJWT_djwt(jwt_token, jwtSecret).user_id)
  /\ Exchange

\* comments/index.ts lines 467-554 after the checks of comment_id and of
\* the token: the author, or a moderator, soft-deletes the comment.
handleDeleteComment(jwt_token, userId) ==
  IF body.comment_id \notin DOMAIN comments THEN
    Reject("delete", 404, jwt_token, TRUE)
  ELSE IF /\ comments[body.comment_id].user_id # userId
          /\ ~hasMinRole(mod_plus, userId, "moderator") THEN
    Reject("delete", 403, jwt_token, TRUE)
  ELSE
    UpdateComment("delete", jwt_token,
      [comments[body.comment_id] EXCEPT !.deleted = TRUE, !.deleted_by = userId])

DeleteComment(jwt_token) ==
  /\ CommentsCall("delete")
  /\ IF PresentInvalid(jwt_token) THEN
       Reject("delete", 401, jwt_token, FALSE)
     ELSE IF body.comment_id = "" THEN
       Reject("delete", 400, jwt_token, Truthy(jwt_token))
     ELSE IF ~verifyJWT_djwt(jwt_token, jwtSecret).valid THEN
       Reject("delete", 401, jwt_token, FALSE)
     ELSE
       handleDeleteComment(jwt_token, verifyJWT_djwt(jwt_token, jwtSecret).user_id)
  /\ Exchange

\* comments/index.ts lines 31-38: an action outside create, edit, delete,
\* mod_delete.
CommentsInvalidAction(jwt_token) ==
  /\ body.endpoint = "comments"
  /\ body.action \notin {"create", "edit", "delete", "mod_delete"}
  /\ Reject(body.action, 400, jwt_token, FALSE)
  /\ Exchange

\* Roles are administered in SQL (docs/configuration.md): a row of
\* mod_plus is inserted or updated,
SetRole(user_id, role) ==
  /\ mod_plus' = {r \in mod_plus : r.user_id # user_id}
                   \cup {[user_id |-> user_id, role |-> role]}
  /\ UNCHANGED <<codecVars, config, now, comments, users, voteVars, background, cache, reqVars, resp>>

\* or deleted.
RemoveRole(user_id) ==
  /\ mod_plus' = {r \in mod_plus : r.user_id # user_id}
  /\ UNCHANGED <<codecVars, config, now, comments, users, voteVars, background, cache, reqVars, resp>>

(***************************************************************************)
(* The requests sent.  A behaviour holds one body: clients send it under   *)
(* the tokens of SessionTokens, again and again, while roles are changed.  *)
(***************************************************************************)
\* comment_id: the comment of the store, an unknown one, none.
BodyCommentIds == {"c1", "c9", ""}

\* target_user_id and target_client_type: the user of the store, an
\* unknown one, none.
BodyTargets == {<<<<50>>, "anilist">>, <<<<57>>, "anilist">>, <<<<>>, "">>}

ModerationBodies ==
  {[NoBody EXCEPT !.endpoint = "moderation", !.action = "pin_comment",
                  !.comment_id = c, !.pin = p, !.reason = "spam"] :
     c \in BodyCommentIds, p \in {"undefined", "true", "false"}}
  \cup
  {[NoBody EXCEPT !.endpoint = "moderation", !.action = a, !.comment_id = c] :
     a \in {"lock_thread", "unlock_thread"}, c \in BodyCommentIds}
  \cup
  {[NoBody EXCEPT !.endpoint = "moderation", !.action = a,
                  !.target_user_id = t[1], !.target_client_type = t[2],
                  !.reason = r, !.duration = 24] :
     a \in {"warn_user", "unwarn_user", "mute_user", "unmute_user",
            "ban_user", "unban_user"},
     t \in BodyTargets, r \in {"", "spam"}}
  \cup
  {[NoBody EXCEPT !.endpoint = "moderation", !.action = "mute_user",
                  !.target_user_id = <<50>>, !.target_client_type = "anilist"],
   [NoBody EXCEPT !.endpoint = "moderation", !.action = "ban_user",
                  !.target_user_id = <<50>>, !.target_client_type = "anilist",
                  !.reason = "spam", !.shadow_ban = TRUE],
   [NoBody EXCEPT !.endpoint = "moderation", !.action = "get_queue"],
   [NoBody EXCEPT !.endpoint = "moderation", !.action = "purge"]}

ReportsBodies ==
  {[NoBody EXCEPT !.endpoint = "reports", !.action = "create",
                  !.comment_id = c, !.reporter_info = "valid",
                  !.reason = "spam"] : c \in BodyCommentIds}
  \cup
  {[NoBody EXCEPT !.endpoint = "reports", !.action = "create",
                  !.comment_id = "c1", !.reporter_info = i, !.reason = r] :
     i \in {"invalid", "missing"}, r \in {"spam"}}
  \cup
  {[NoBody EXCEPT !.endpoint = "reports", !.action = "create",
                  !.comment_id = "c1", !.reporter_info = "valid", !.reason = r] :
     r \in {"", "rude"}}
  \cup
  {[NoBody EXCEPT !.endpoint = "reports", !.action = "resolve",
                  !.comment_id = "c1", !.report_id = "r1", !.resolution = r] :
     r \in {"resolved", "dismissed", "ignored"}}
  \cup
  {[NoBody EXCEPT !.endpoint = "reports", !.action = "resolve",
                  !.comment_id = "c1", !.report_id = "r9",
                  !.resolution = "resolved"],
   [NoBody EXCEPT !.endpoint = "reports", !.action = "resolve",
                  !.comment_id = "c9", !.report_id = "r1",
                  !.resolution = "resolved"],
   [NoBody EXCEPT !.endpoint = "reports", !.action = "get_queue"],
   [NoBody EXCEPT !.endpoint = "reports", !.action = "purge"]}

CommentsBodies ==
  {[NoBody EXCEPT !.endpoint = "comments", !.action = a, !.comment_id = c] :
     a \in {"delete", "mod_delete"}, c \in BodyCommentIds}
  \cup {[NoBody EXCEPT !.endpoint = "comments", !.action = "purge"]}

\* The store: comment c1 of user "2", new or reported once and locked, and
\* the users row of "2", new or warned, muted and banned.  User "2" is a
\* super_admin; user "1", the holder of the tokens, has no row in mod_plus.
InitMod ==
  /\ jwtSecret = Secret
  /\ token = Undefined
  /\ origin = NoOrigin
  /\ verified = NotVerified
  /\ verifyMemo = <<>>
  /\ body \in ModerationBodies \cup ReportsBodies \cup CommentsBodies
  /\ config \in {DefaultConfig, [DefaultConfig EXCEPT !.reporting_enabled = FALSE]}
  /\ config.reporting_enabled \/ body.endpoint = "reports"
  /\ now = 0
  /\ background = {}
  /\ cache = NoCache
  /\ comments \in
       {[c \in {"c1"} |-> CommentRow(<<50>>, "anilist", <<>>)],
        [c \in {"c1"} |->
           [CommentRow(<<50>>, "anilist",
                       <<PendingReport("r1", <<51>>, "spam")>>)
              EXCEPT !.locked = TRUE, !.locked_by = <<50>>]]}
  /\ users \in
       {[k \in {<<<<50>>, "anilist">>} |-> UserRow(0, FALSE, 0)],
        [k \in {<<<<50>>, "anilist">>} |-> UserRow(1, TRUE, 24)]}
  /\ mod_plus = {[user_id |-> <<50>>, role |-> "super_admin"]}
  /\ inflight = <<>>
  /\ voteLog = <<>>
  /\ prevResp = [op |-> "none", status |-> 0, jwt_token |-> Undefined,
                 roleResolved |-> FALSE, queue |-> {}, seq |-> 1]
  /\ resp = [op |-> "none", status |-> 0, jwt_token |-> Undefined,
             roleResolved |-> FALSE, queue |-> {}, seq |-> 0]

\* The users whose role is changed while requests are served: "1".
RoleHolders == {<<49>>}

NextMod ==
  \/ \E jwt_token \in SessionTokens : PinComment(jwt_token)
  \/ \E jwt_token \in SessionTokens : LockThread(jwt_token)
  \/ \E jwt_token \in SessionTokens : UnlockThread(jwt_token)
  \/ \E jwt_token \in SessionTokens : WarnUser(jwt_token)
  \/ \E jwt_token \in SessionTokens : UnwarnUser(jwt_token)
  \/ \E jwt_token \in SessionTokens : MuteUser(jwt_token)
  \/ \E jwt_token \in SessionTokens : UnmuteUser(jwt_token)
  \/ \E jwt_token \in SessionTokens : BanUser(jwt_token)
  \/ \E jwt_token \in SessionTokens : UnbanUser(jwt_token)
  \/ \E jwt_token \in SessionTokens : GetQueue(jwt_token)
  \/ \E jwt_token \in SessionTokens : ModerationInvalidAction(jwt_token)
  \/ \E jwt_token \in SessionTokens : CreateReport(jwt_token)
  \/ \E jwt_token \in SessionTokens : ResolveReport(jwt_token)
  \/ \E jwt_token \in SessionTokens : ReportsGetQueue(jwt_token)
  \/ \E jwt_token \in SessionTokens : ReportsInvalidAction(jwt_token)
  \/ \E jwt_token \in SessionTokens : ModDeleteComment(jwt_token)
  \/ \E jwt_token \in SessionTokens : DeleteComment(jwt_token)
  \/ \E jwt_token \in SessionTokens : CommentsInvalidAction(jwt_token)
  \/ \E user_id \in RoleHolders, role \in Roles : SetRole(user_id, role)
  \/ \E user_id \in RoleHolders : RemoveRole(user_id)

SpecMod == InitMod /\ [][NextMod]_vars

(***************************************************************************)
(* Properties of the privileged actions.                                   *)
(***************************************************************************)
\* The minimum role of a privileged action, "none" for the other actions.
MinimumRole(b) ==
  IF b.endpoint = "moderation" /\ b.action \in {"ban_user", "unban_user"}
    THEN "admin"
  ELSE IF \/ /\ b.endpoint = "moderation"
             /\ b.action \in {"pin_comment", "lock_thread", "unlock_thread",
                              "warn_user", "unwarn_user", "mute_user",
                              "unmute_user", "get_queue"}
          \/ b.endpoint = "comments" /\ b.action = "mod_delete"
          \/ b.endpoint = "reports" /\ b.action \in {"resolve", "get_queue"}
    THEN "moderator"
  ELSE "none"

Privileged(b) == MinimumRole(b) # "none"

\* The token is one the service signed.
Authentic(jwt_token) == jwt_token \in DOMAIN SignedSessions

\* The user an authentic token was issued to.
Holder(jwt_token) == SignedSessions[jwt_token].user_id

\* The stored role of the token's holder is at least the minimum of b.
MeetsMinimum(rows, jwt_token, b) ==
  /\ Authentic(jwt_token)
  /\ Rank(StoredRole(rows, Holder(jwt_token))) >= Rank(MinimumRole(b))

\* The request is turned away before any role is looked at: mod_delete
\* without a comment_id is malformed (400), and a reports action while
\* reporting is disabled is not served (503).
TurnedAwayEarly(b) ==
  \/ b.endpoint = "comments" /\ b.comment_id = ""
  \/ b.endpoint = "reports" /\ ~config.reporting_enabled

\* A step in which a request is answered.
Answered == resp'.seq # resp.seq

\* C5: a privileged action (pin_comment, lock_thread, unlock_thread,
\* warn_user, unwarn_user, mute_user, unmute_user, mod_delete, resolve and
\* get_queue with minimum moderator; ban_user and unban_user with minimum
\* admin) changes the store or answers 200 only when the stored role of
\* the actor is at least the minimum; an actor below it is rejected with
\* 403 and the store is unchanged.
C5_PrivilegedNeedsRole ==
  [][(Answered /\ Privileged(body)) =>
       /\ (comments' # comments \/ users' # users \/ resp'.status = 200)
            => MeetsMinimum(mod_plus, resp'.jwt_token, body)
       /\ (/\ Authentic(resp'.jwt_token)
           /\ ~MeetsMinimum(mod_plus, resp'.jwt_token, body)
           /\ ~TurnedAwayEarly(body))
            => /\ resp'.status = 403
               /\ resp'.queue = {}
               /\ comments' = comments
               /\ users' = users]_vars

\* A moderator asked for ban_user: 403, and the user is not banned.
C5_Witness ==
  /\ body.action = "ban_user"
  /\ resp.status = 403
  /\ Authentic(resp.jwt_token)
  /\ StoredRole(mod_plus, Holder(resp.jwt_token)) = "moderator"
  /\ ~users[<<<<50>>, "anilist">>].user_banned

\* C6: when a token is used for a second request, after the stored role of
\* its holder may have changed, the request is authorized by the role
\* stored at that moment and not by a role the token carries: it is
\* rejected with 403 if and only if the stored role is below the action's
\* minimum.
C6_LiveRoleDecides ==
  [][(/\ Answered
      /\ Privileged(body)
      /\ resp.op # "none"
      /\ resp'.jwt_token = resp.jwt_token
      /\ Authentic(resp'.jwt_token)
      /\ ~TurnedAwayEarly(body))
       => (resp'.status = 403 <=>
             Rank(StoredRole(mod_plus, Holder(resp'.jwt_token)))
               < Rank(MinimumRole(body)))]_vars

\* The token issued to an admin was allowed, the holder was demoted, and
\* the same token is rejected with 403.
C6_Witness ==
  /\ Privileged(body)
  /\ Authentic(resp.jwt_token)
  /\ SignedSessions[resp.jwt_token].role = "admin"
  /\ prevResp.jwt_token = resp.jwt_token
  /\ prevResp.status = 200
  /\ resp.status = 403
  /\ Rank(StoredRole(mod_plus, Holder(resp.jwt_token))) < Rank(MinimumRole(body))

\* The body lacks a field its action requires, or names no action of its
\* endpoint.
Malformed(b) ==
  \/ b.endpoint = "moderation" /\ b.action \notin ModerationActions
  \/ /\ b.endpoint = "moderation"
     /\ b.action \in {"pin_comment", "lock_thread", "unlock_thread"}
     /\ b.comment_id = ""
  \/ /\ b.endpoint = "moderation"
     /\ b.action \in {"warn_user", "unwarn_user", "mute_user", "unmute_user",
                      "ban_user", "unban_user"}
     /\ (b.target_user_id = <<>> \/ b.target_client_type = "")
  \/ b.endpoint = "moderation" /\ b.action \in {"warn_user", "ban_user"} /\ b.reason = ""
  \/ b.endpoint = "moderation" /\ b.action = "mute_user" /\ b.duration = 0
  \/ b.endpoint = "reports" /\ b.action \notin {"create", "resolve", "get_queue"}
  \/ /\ b.endpoint = "reports" /\ b.action = "create"
     /\ (b.comment_id = "" \/ b.reporter_info # "valid" \/ b.reason \notin validReasons)
  \/ /\ b.endpoint = "reports" /\ b.action = "resolve"
     /\ b.resolution \notin {"resolved", "dismissed"}
  \/ b.endpoint = "comments" /\ b.action \notin {"delete", "mod_delete"}
  \/ b.endpoint = "comments" /\ b.comment_id = ""

\* C10: a request of any endpoint and action whose token is missing or
\* fails verification is rejected with 401, no role is resolved for it and
\* the store is unchanged (the request being well formed otherwise and
\* its endpoint enabled).
C10_NoTokenRejected ==
  [][(/\ Answered
      /\ ~Authentic(resp'.jwt_token)
      /\ ~Malformed(body)
      /\ ~TurnedAwayEarly(body))
       => /\ resp'.status = 401
          /\ ~resp'.roleResolved
          /\ comments' = comments
          /\ users' = users]_vars

(***************************************************************************)
(* The write actions of an actor: create, edit and delete of the comments  *)
(* endpoint (comments/index.ts), create of the reports endpoint and the    *)
(* votes endpoint.  They are served while a moderator bans and unbans the  *)
(* actor (SpecBan), and while a moderator mutes and unmutes the actor and  *)
(* time passes (SpecMute).                                                 *)
(***************************************************************************)
\* userStatus?.user_banned for the users row of (userId, clientType).
UserBanned(userId, clientType) ==
  /\ <<userId, clientType>> \in DOMAIN users
  /\ users[<<userId, clientType>>].user_banned

\* Variant of UserMuted that takes a mute for lasting once it is set.
UserMuted_set(userId, clientType) ==
  /\ <<userId, clientType>> \in DOMAIN users
  /\ users[<<userId, clientType>>].user_muted_until # 0

\* userStatus?.user_muted_until && new Date(user_muted_until) > new Date()
\* (comments/index.ts line 155).
UserMuted(userId, clientType) ==
  /\ <<userId, clientType>> \in DOMAIN users
  /\ users[<<userId, clientType>>].user_muted_until # 0
  /\ users[<<userId, clientType>>].user_muted_until > now

\* An error response with its message; the tables are left as they are.
Denied(op, status, jwt_token, roleResolved, error) ==
  /\ resp' = Response(op, status, jwt_token, roleResolved, {})
               @@ [error |-> error]
  /\ UNCHANGED <<comments, users>>

MaxComments == 3

\* The row insert(...) makes of a comment: the columns given and the
\* defaults of the others.
InsertedComment(userId, clientType, content, parent_id) ==
  [CommentRow(userId, clientType, <<>>)
     EXCEPT !.content = content, !.parent_id = parent_id]
  @@ NewComment(userId, clientType, JNull)

\* getOrCreateUser (shared/jwt.ts lines 123-168): the row of the user is
\* updated, or inserted if there is none.
getOrCreateUser(clientType, userId) ==
  IF <<userId, clientType>> \in DOMAIN users
  THEN [users EXCEPT ![<<userId, clientType>>].updated_at = now]
  ELSE users @@ (<<userId, clientType>> :>
                   [UserRow(0, FALSE, 0) EXCEPT !.updated_at = now])

\* Variant of handleCreateComment that does not look at locked of the
\* parent.
handleCreateComment_ignoreLock(jwt_token, userId, clientType) ==
  IF ~config.system_enabled THEN
    Denied("create", 503, jwt_token, TRUE, "Comment system is disabled")
  ELSE IF UserBanned(userId, clientType) THEN
    Denied("create", 403, jwt_token, TRUE, "User is banned")
  ELSE IF UserMuted(userId, clientType) THEN
    Denied("create", 403, jwt_token, TRUE, "User is temporarily muted")
  ELSE IF body.parent_id # "" /\ body.parent_id \notin DOMAIN comments THEN
    Denied("create", 404, jwt_token, TRUE, "Parent comment not found")
  ELSE
    /\ comments' = comments @@
         (NewCommentId :> InsertedComment(userId, clientType, body.content,
                                          body.parent_id))
    /\ users' = getOrCreateUser(clientType, userId)
    /\ resp' = Response("create", 201, jwt_token, TRUE, {})

\* comments/index.ts lines 111-286, after the required fields and the
\* token were checked.  Contents are within max_comment_length, no keyword
\* is banned and no thread is max_nesting_level deep.
handleCreateComment(jwt_token, userId, clientType) ==
  IF ~config.system_enabled THEN
    Denied("create", 503, jwt_token, TRUE, "Comment system is disabled")
  ELSE IF UserBanned(userId, clientType) THEN
    Denied("create", 403, jwt_token, TRUE, "User is banned")
  ELSE IF UserMuted(userId, clientType) THEN
    Denied("create", 403, jwt_token, TRUE, "User is temporarily muted")
  ELSE IF body.parent_id # "" /\ body.parent_id \notin DOMAIN comments THEN
    Denied("create", 404, jwt_token, TRUE, "Parent comment not found")
  ELSE IF body.parent_id # "" /\ comments[body.parent_id].locked THEN
    Denied("create", 403, jwt_token, TRUE, "Comment thread is locked")
  ELSE
    /\ comments' = comments @@
         (NewCommentId :> InsertedComment(userId, clientType, body.content,
                                          body.parent_id))
    /\ users' = getOrCreateUser(clientType, userId)
    /\ resp' = Response("create", 201, jwt_token, TRUE, {})

CreateComment(jwt_token) ==
  /\ CommentsCall("create")
  /\ Cardinality(DOMAIN comments) < MaxComments
  /\ IF PresentInvalid(jwt_token) THEN
       Denied("create", 401, jwt_token, FALSE, "Invalid or expired JWT token")
     ELSE IF body.content = "" \/ body.media_id = "" THEN
       Denied("create", 400, jwt_token, Truthy(jwt_token),
              "content and media_id are required")
     ELSE IF ~verifyJWT_djwt(jwt_token, jwtSecret).valid THEN
       Denied("create", 401, jwt_token, FALSE, "Authentication required")
     ELSE
       handleCreateComment(jwt_token,
                           verifyJWT_djwt(jwt_token, jwtSecret).user_id,
                           verifyJWT_djwt(jwt_token, jwtSecret).client_type)
  /\ Exchange

MaxEdits == 1

\* comments/index.ts lines 380-465, after the required fields and the
\* token were checked.
handleEditComment(jwt_token, userId) ==
  IF body.comment_id \notin DOMAIN comments THEN
    Denied("edit", 404, jwt_token, TRUE, "Comment not found")
  ELSE IF /\ comments[body.comment_id].user_id # userId
          /\ ~hasMinRole(mod_plus, userId, "moderator") THEN
    Denied("edit", 403, jwt_token, TRUE, "You can only edit your own comments")
  ELSE IF comments[body.comment_id].deleted \/ comments[body.comment_id].locked THEN
    Denied("edit", 400, jwt_token, TRUE, "Cannot edit deleted or locked comments")
  ELSE
    UpdateComment("edit", jwt_token,
      [comments[body.comment_id] EXCEPT
         !.content = body.content, !.edited = TRUE,
         !.edit_count = comments[body.comment_id].edit_count + 1,
         !.edit_history =
            Append(comments[body.comment_id].edit_history,
                   [oldContent |-> comments[body.comment_id].content,
                    newContent |-> body.content,
                    editedAt |-> now, editedBy |-> userId])])

\* The edit action; cap bounds edit_count.
EditCommentBelow(jwt_token, cap) ==
  /\ CommentsCall("edit")
  /\ body.comment_id \in DOMAIN comments =>
       comments[body.comment_id].edit_count < cap
  /\ IF PresentInvalid(jwt_token) THEN
       Denied("edit", 401, jwt_token, FALSE, "Invalid or expired JWT token")
     ELSE IF body.comment_id = "" \/ body.content = "" THEN
       Denied("edit", 400, jwt_token, Truthy(jwt_token),
              "comment_id and content are required")
     ELSE IF ~verifyJWT_djwt(jwt_token, jwtSecret).valid THEN
       Denied("edit", 401, jwt_token, FALSE, "Authentication required")
     ELSE
       handleEditComment(jwt_token, verifyJWT_djwt(jwt_token, jwtSecret).user_id)
  /\ Exchange

EditComment(jwt_token) == EditCommentBelow(jwt_token, MaxEdits)

\* A client sends the body of its next request.
Receive(b) ==
  /\ b # body
  /\ body' = b
  /\ UNCHANGED <<codecVars, storeVars, voteVars, background, cache, prevResp, resp>>

MaxNow == 24

\* A day passes.
Tick ==
  /\ now + 24 <= MaxNow
  /\ now' = now + 24
  /\ UNCHANGED <<codecVars, config, comments, users, mod_plus, voteVars, background, cache,
                 reqVars, resp>>

\* The requests of user "1" (comment c1 is its own, c0 is of user "2").
CreateBody ==
  [NoBody EXCEPT !.endpoint = "comments", !.action = "create",
                 !.content = "b", !.media_id = "m1"]

ReportBody ==
  [NoBody EXCEPT !.endpoint = "reports", !.action = "create",
                 !.comment_id = "c0", !.reporter_info = "valid",
                 !.reporter_id = <<49>>, !.reason = "spam"]

\* The requests while user "1" is banned and unbanned.
BanBodies ==
  {CreateBody, ReportBody,
   [NoBody EXCEPT !.endpoint = "comments", !.action = "edit",
                  !.comment_id = "c1", !.content = "b"],
   [NoBody EXCEPT !.endpoint = "comments", !.action = "delete",
                  !.comment_id = "c1"],
   [NoBody EXCEPT !.endpoint = "moderation", !.action = "unban_user",
                  !.target_user_id = <<49>>, !.target_client_type = "anilist",
                  !.reason = "appeal"]}
  \cup
  {[NoBody EXCEPT !.endpoint = "moderation", !.action = "ban_user",
                  !.target_user_id = <<49>>, !.target_client_type = "anilist",
                  !.reason = "spam", !.shadow_ban = sb] : sb \in BOOLEAN}

\* The requests while user "1" is muted and unmuted.
MuteBodies ==
  {CreateBody, ReportBody,
   [NoBody EXCEPT !.endpoint = "moderation", !.action = "mute_user",
                  !.target_user_id = <<49>>, !.target_client_type = "anilist",
                  !.duration = 24],
   [NoBody EXCEPT !.endpoint = "moderation", !.action = "unmute_user",
                  !.target_user_id = <<49>>, !.target_client_type = "anilist"]}

\* Tokens of the writer, user "1", and of the moderator, user "2".
WriterTokens == {Undefined, Str(<<116, 49>>)}
ModeratorTokens == {Str(<<116, 51>>)}

\* The tokens of the votes endpoint that are invalid or user "1"'s.
WriterVoteTokens ==
  {t \in DOMAIN verifyMemo :
     ~verifyMemo[t].valid \/ verifyMemo[t].uid = Str(<<49>>)}

\* User "1" has a users row and two comments are there: c0 of user "2",
\* c1 of user "1".
WriteStore ==
  /\ jwtSecret = Secret
  /\ token = Undefined
  /\ origin = NoOrigin
  /\ verified = NotVerified
  /\ verifyMemo = [t \in VoteTokens(Secret) |-> verifyJWT(t, Secret)]
  /\ config = DefaultConfig
  /\ now = 0
  /\ background = {}
  /\ cache = NoCache
  /\ comments =
       ("c0" :> InsertedComment(<<50>>, "anilist", "a", ""))
       @@ ("c1" :> InsertedComment(<<49>>, "anilist", "a", ""))
  /\ users = (<<<<49>>, "anilist">> :> UserRow(0, FALSE, 0))
  /\ inflight = [r \in ReqSlots |-> Idle]
  /\ voteLog = <<>>
  /\ body = NoBody
  /\ prevResp = [op |-> "none", status |-> 0, jwt_token |-> Undefined,
                 roleResolved |-> FALSE, queue |-> {}, seq |-> 1]
  /\ resp = [op |-> "none", status |-> 0, jwt_token |-> Undefined,
             roleResolved |-> FALSE, queue |-> {}, seq |-> 0]

\* User "2" is a super_admin; user "1" is a plain user, a moderator or an
\* admin.
InitBan ==
  /\ WriteStore
  /\ mod_plus \in
       {{[user_id |-> <<50>>, role |-> "super_admin"]},
        {[user_id |-> <<50>>, role |-> "super_admin"],
         [user_id |-> <<49>>, role |-> "moderator"]},
        {[user_id |-> <<50>>, role |-> "super_admin"],
         [user_id |-> <<49>>, role |-> "admin"]}}

NextBan ==
  \/ \E b \in BanBodies : Receive(b)
  \/ \E jwt_token \in WriterTokens : CreateComment(jwt_token)
  \/ \E jwt_token \in WriterTokens : EditComment(jwt_token)
  \/ \E jwt_token \in WriterTokens : DeleteComment(jwt_token)
  \/ \E jwt_token \in WriterTokens : CreateReport(jwt_token)
  \/ \E jwt_token \in ModeratorTokens : BanUser(jwt_token)
  \/ \E jwt_token \in ModeratorTokens : UnbanUser(jwt_token)

SpecBan == InitBan /\ [][NextBan]_vars

InitMute ==
  /\ WriteStore
  /\ mod_plus = {[user_id |-> <<50>>, role |-> "super_admin"]}

NextMute ==
  \/ \E b \in MuteBodies : Receive(b)
  \/ Tick
  \/ \E jwt_token \in WriterTokens : CreateComment(jwt_token)
  \/ \E jwt_token \in WriterTokens : CreateReport(jwt_token)
  \/ \E jwt_token \in WriterVoteTokens : VoteRequest("r1", "c0", Upvote, jwt_token)
  \/ VoteWrite("r1")
  \/ \E jwt_token \in ModeratorTokens : MuteUser(jwt_token)
  \/ \E jwt_token \in ModeratorTokens : UnmuteUser(jwt_token)

SpecMute == InitMute /\ [][NextMute]_vars

(***************************************************************************)
(* Properties of the write actions.                                        *)
(***************************************************************************)
\* The request is one of the four write actions.
WriteRequest(b) ==
  \/ b.endpoint = "comments" /\ b.action \in {"create", "edit", "delete"}
  \/ b.endpoint = "reports" /\ b.action = "create"

\* The users key of the actor of a write request: the holder of the token,
\* and for a report the reporter it names.
ActorKey(b, jwt_token) ==
  IF b.endpoint = "reports" THEN <<b.reporter_id, "anilist">>
  ELSE <<SignedSessions[jwt_token].user_id, SignedSessions[jwt_token].client_type>>

\* The actor of the request is known and its users row says banned.
ActorBanned(b, jwt_token) ==
  /\ b.endpoint = "reports" \/ Authentic(jwt_token)
  /\ ActorKey(b, jwt_token) \in DOMAIN users
  /\ users[ActorKey(b, jwt_token)].user_banned

\* The error message of a response, '' if it has none.
ErrorOf(response) ==
  IF "error" \in DOMAIN response THEN response.error ELSE ""

\* C11: while the users row of an actor says banned, every write action of
\* that actor (create, edit and delete of a comment, create of a report)
\* is denied with 403 'User is banned' and changes nothing, whatever the
\* role of the actor.
C11_BannedWritesDenied ==
  [][(/\ Answered
      /\ WriteRequest(body)
      /\ ActorBanned(body, resp'.jwt_token))
       => /\ resp'.status = 403
          /\ ErrorOf(resp') = "User is banned"
          /\ comments' = comments
          /\ users' = users]_vars

\* The users row of the key holds a mute that ends later than now.
MuteInForce(key) ==
  /\ key \in DOMAIN users
  /\ users[key].user_muted_until # 0
  /\ users[key].user_muted_until > now

\* A step that answers a create of the comments endpoint sent with a valid
\* token and the required fields.
CreateAnswered ==
  /\ SeqOf(resp') # SeqOf(resp)
  /\ body.endpoint = "comments" /\ body.action = "create"
  /\ body.content # "" /\ body.media_id # ""
  /\ resp'.op = "create"
  /\ Authentic(resp'.jwt_token)

\* A step that answers a create of the reports endpoint.
ReportAnswered ==
  /\ SeqOf(resp') # SeqOf(resp)
  /\ body.endpoint = "reports" /\ body.action = "create"
  /\ resp'.op = "create"

\* A step in which the vote of request slot r is written.
VoteWritten(r) == inflight[r].pc = "read" /\ inflight'[r].pc = "idle"

\* The voter of request slot r is muted: the voters are anilist users.
VoterMuted(r) == MuteInForce(<<inflight[r].userId.s, "anilist">>)

\* C12: a mute gates the creation of comments, and only while it ends in
\* the future: a create by an actor whose muted_until is set and later
\* than now is denied (403 'User is temporarily muted', nothing written);
\* a create by an actor whose muted_until is null or not later than now is
\* not denied as muted; a report or a vote by a muted actor is never
\* denied because of the mute (the report is stored, 201; the vote is
\* written, 200; the only votes not answered 200 are those without a
\* token, 400, and with an invalid one, 401).
C12_MuteGatesCreateOnly ==
  [][/\ (CreateAnswered /\ MuteInForce(ActorKey(body, resp'.jwt_token)))
          => /\ resp'.status = 403
             /\ ErrorOf(resp') = "User is temporarily muted"
             /\ comments' = comments
             /\ users' = users
     /\ (CreateAnswered /\ ~MuteInForce(ActorKey(body, resp'.jwt_token)))
          => /\ ErrorOf(resp') # "User is temporarily muted"
             /\ resp'.status = 201
             /\ comments' # comments
     /\ (ReportAnswered /\ MuteInForce(ActorKey(body, resp'.jwt_token)))
          => /\ resp'.status = 201
             /\ comments' # comments
     /\ \A r \in ReqSlots :
          (VoteWritten(r) /\ VoterMuted(r))
            => resp'.status = 200 /\ comments' # comments
     /\ (resp' # resp /\ resp'.op = "vote")
          => \/ resp'.status = 200
             \/ resp'.status = 400 /\ resp'.error = "comment_id, vote_type, and jwt_token are required"
             \/ resp'.status = 401 /\ resp'.error = "Invalid or expired token"]_vars

\* A mute of 24 hours was set, a day passed, and the create of the actor
\* is answered 201 although muted_until is still set.
C12_Witness ==
  /\ body = CreateBody
  /\ resp.op = "create"
  /\ resp.status = 201
  /\ users[<<<<49>>, "anilist">>].user_muted_until # 0
  /\ users[<<<<49>>, "anilist">>].user_muted_until <= now
  /\ \E i \in 1..Len(voteLog) : voteLog[i].userId = Str(<<49>>)

\* C13: a shadow ban is not a denial: once ban_user with shadow_ban = true
\* has set user_shadow_banned on the users row of an actor, a create of a
\* comment by that actor (valid token, required fields) is still allowed,
\* 201, and the comment is inserted.
C13_ShadowBanAllowsCreate ==
  [][(/\ CreateAnswered
      /\ ActorKey(body, resp'.jwt_token) \in DOMAIN users
      /\ users[ActorKey(body, resp'.jwt_token)].user_shadow_banned)
       => /\ resp'.status = 201
          /\ comments' # comments]_vars

(***************************************************************************)
(* Properties of the responses about targets (SpecMod).                    *)
(***************************************************************************)
\* The request names a comment that is not in the table.
NamesMissingComment(b) ==
  b.comment_id # "" /\ b.comment_id \notin DOMAIN comments

\* The request names a user that is not in the table.
NamesMissingUser(b) ==
  /\ b.target_user_id # <<>>
  /\ b.target_client_type # ""
  /\ <<b.target_user_id, b.target_client_type>> \notin DOMAIN users

\* C14: an actor whose stored role is below the minimum of a privileged
\* action (the moderation actions, mod_delete, resolve of a report) gets
\* the privilege failure 403 whether the comment or user it names exists
\* or not: its response is made of the action and the token alone, and
\* nothing is written.
C14_DenialHidesTarget ==
  [][(/\ Answered
      /\ Privileged(body)
      /\ Authentic(resp'.jwt_token)
      /\ ~MeetsMinimum(mod_plus, resp'.jwt_token, body)
      /\ ~TurnedAwayEarly(body))
       => /\ resp' = Response(body.action, 403, resp'.jwt_token, TRUE, {})
          /\ comments' = comments
          /\ users' = users]_vars

\* An actor below the minimum was answered 403 for a target that does not
\* exist.
C14_Witness ==
  /\ Privileged(body)
  /\ resp.op = body.action
  /\ resp.status = 403
  /\ Authentic(resp.jwt_token)
  /\ ~MeetsMinimum(mod_plus, resp.jwt_token, body)
  /\ NamesMissingComment(body) \/ NamesMissingUser(body)

\* C15: an authorized actor of an elevated action that names a target
\* (pin_comment, lock_thread, unlock_thread, mod_delete, resolve of a
\* report on a comment; warn, unwarn, mute, unmute, ban, unban on a user)
\* whose target does not exist is answered 404, never a success and never
\* a server error, and nothing is written (the request having its
\* required fields).
C15_MissingTargetNotFound ==
  [][(/\ Answered
      /\ Privileged(body)
      /\ MeetsMinimum(mod_plus, resp'.jwt_token, body)
      /\ ~Malformed(body)
      /\ ~TurnedAwayEarly(body)
      /\ NamesMissingComment(body) \/ NamesMissingUser(body))
       => /\ resp'.status = 404
          /\ comments' = comments
          /\ users' = users]_vars

\* C16: a malformed request (a required field missing, or an action or a
\* resolution that is not valid) is answered 400 before the token or a
\* role is looked at and before the tables are read or written: whatever
\* the token and the stored role, the response is 400, no role was
\* resolved and the tables are unchanged.
C16_MalformedRejectedFirst ==
  [][(Answered /\ Malformed(body) /\ ~TurnedAwayEarly(body))
       => /\ resp'.status = 400
          /\ ~resp'.roleResolved
          /\ comments' = comments
          /\ users' = users]_vars

(***************************************************************************)
(* The users endpoint.  The repository holds two builds of it:             *)
(* users/index.ts, which verifies the session tokens of shared/jwt.ts, and *)
(* part_004, which verifies the {uid, ct} tokens of part_001 and looks the *)
(* caller up in users before it serves an action.  Both only read.         *)
(***************************************************************************)
UsersCall(op) == body.endpoint = "users" /\ body.action = op

\* const isSelf = !target_user_id || target_user_id === userId
IsSelf(userId) == body.target_user_id = <<>> \/ body.target_user_id = userId

\* select('*').eq('user_id', ..).eq('client_type', ..).single() on users:
\* the rows found, none for null.
UserData(key) == IF key \in DOMAIN users THEN {users[key]} ELSE {}

\* The ids of the comments of a user on a provider.
CommentsOf(key) ==
  {c \in DOMAIN comments :
     comments[c].user_id = key[1] /\ comments[c].client_type = key[2]}

\* The 200 response of a read: whose data was queried, and the data.
UsersFound(op, jwt_token, roleResolved, isSelf, key, data) ==
  /\ resp' = Response(op, 200, jwt_token, roleResolved, {})
               @@ [is_self |-> isSelf, user_id |-> key[1],
                   client_type |-> key[2], data |-> data]
  /\ UNCHANGED <<comments, users>>

\* users/index.ts lines 87-88, 139-140, 199-200: queryUserId and
\* queryClientType, the latter taken from userRole in the self case.
QueryKey(userId, userRole) ==
  IF IsSelf(userId) THEN <<userId, userRole>>
  ELSE <<body.target_user_id, body.target_client_type>>

\* users/index.ts lines 74-124.
handleGetUserInfo(jwt_token, userId, userRole) ==
  IF ~IsSelf(userId) /\ ~hasMinRole(mod_plus, userId, "moderator") THEN
    Reject("get_user_info", 403, jwt_token, TRUE)
  ELSE
    UsersFound("get_user_info", jwt_token, ~IsSelf(userId), IsSelf(userId),
               QueryKey(userId, userRole), UserData(QueryKey(userId, userRole)))

\* users/index.ts lines 126-184.
handleGetUserStats(jwt_token, userId, userRole) ==
  IF ~IsSelf(userId) /\ ~hasMinRole(mod_plus, userId, "moderator") THEN
    Reject("get_user_stats", 403, jwt_token, TRUE)
  ELSE
    UsersFound("get_user_stats", jwt_token, ~IsSelf(userId), IsSelf(userId),
               QueryKey(userId, userRole), CommentsOf(QueryKey(userId, userRole)))

\* users/index.ts lines 186-232.
handleGetUserHistory(jwt_token, userId, userRole) ==
  IF ~IsSelf(userId) /\ ~hasMinRole(mod_plus, userId, "moderator") THEN
    Reject("get_user_history", 403, jwt_token, TRUE)
  ELSE
    UsersFound("get_user_history", jwt_token, ~IsSelf(userId), IsSelf(userId),
               QueryKey(userId, userRole), CommentsOf(QueryKey(userId, userRole)))

\* users/index.ts lines 15-72: the token is verified, userId and userRole
\* are taken from its payload and the action is served.
GetUserInfo(jwt_token) ==
  /\ UsersCall("get_user_info")
  /\ IF ~verifyJWT_djwt(jwt_token, jwtSecret).valid
     THEN Reject("get_user_info", 401, jwt_token, FALSE)
     ELSE handleGetUserInfo(jwt_token,
                            verifyJWT_djwt(jwt_token, jwtSecret).user_id,
                            verifyJWT_djwt(jwt_token, jwtSecret).role)
  /\ Exchange

GetUserStats(jwt_token) ==
  /\ UsersCall("get_user_stats")
  /\ IF ~verifyJWT_djwt(jwt_token, jwtSecret).valid
     THEN Reject("get_user_stats", 401, jwt_token, FALSE)
     ELSE handleGetUserStats(jwt_token,
                             verifyJWT_djwt(jwt_token, jwtSecret).user_id,
                             verifyJWT_djwt(jwt_token, jwtSecret).role)
  /\ Exchange

GetUserHistory(jwt_token) ==
  /\ UsersCall("get_user_history")
  /\ IF ~verifyJWT_djwt(jwt_token, jwtSecret).valid
     THEN Reject("get_user_history", 401, jwt_token, FALSE)
     ELSE handleGetUserHistory(jwt_token,
                               verifyJWT_djwt(jwt_token, jwtSecret).user_id,
                               verifyJWT_djwt(jwt_token, jwtSecret).role)
  /\ Exchange

\* part_001 lines 178-203: the users row of (userId, clientType) is there.
getUserInfoFromDB(userId, clientType) == <<userId, clientType>> \in DOMAIN users

\* part_004 lines 175-176, 231-232, 299-300.
QueryKey_part004(userId, clientType) ==
  IF IsSelf(userId) THEN <<userId, clientType>>
  ELSE <<body.target_user_id,
         IF body.target_client_type = "" THEN clientType
         ELSE body.target_client_type>>

\* part_004 lines 162-216 (get_user_info), 218-284 (get_user_stats, the
\* aggregate returning its row) and 286-331 (get_user_history): data is
\* the users row for get_user_info and the comments for the other two.
handleRead_part004(op, jwt_token, userId, clientType) ==
  IF ~IsSelf(userId) /\ ~hasMinRole(mod_plus, userId, "moderator") THEN
    Reject(op, 403, jwt_token, TRUE)
  ELSE IF op = "get_user_info" THEN
    UsersFound(op, jwt_token, TRUE, IsSelf(userId),
               QueryKey_part004(userId, clientType),
               UserData(QueryKey_part004(userId, clientType)))
  ELSE
    UsersFound(op, jwt_token, ~IsSelf(userId), IsSelf(userId),
               QueryKey_part004(userId, clientType),
               CommentsOf(QueryKey_part004(userId, clientType)))

\* part_004 lines 14-86: the token is verified, the caller is looked up in
\* users (404 when it has no row) and the action is served.
Serve_part004(op, jwt_token) ==
  /\ UsersCall(op)
  /\ IF ~verifyMemo[jwt_token].valid THEN
       Denied(op, 401, jwt_token, FALSE, "Invalid or expired token")
     ELSE IF ~getUserInfoFromDB(verifyMemo[jwt_token].uid.s,
                                ProviderOfCode(verifyMemo[jwt_token].ct.s)) THEN
       Denied(op, 404, jwt_token, FALSE, "User not found in database")
     ELSE
       handleRead_part004(op, jwt_token, verifyMemo[jwt_token].uid.s,
                          ProviderOfCode(verifyMemo[jwt_token].ct.s))
  /\ Exchange

UsersActions == {"get_user_info", "get_user_stats", "get_user_history"}

\* The requests: about the caller itself (no target, or its own id with
\* its own or another provider), about user "2", about an unknown user.
UsersBodies ==
  {[NoBody EXCEPT !.endpoint = "users", !.action = a,
                  !.target_user_id = t[1], !.target_client_type = t[2]] :
     a \in UsersActions,
     t \in {<<<<>>, "">>, <<<<49>>, "anilist">>, <<<<49>>, "myanimelist">>,
            <<<<50>>, "anilist">>, <<<<57>>, "anilist">>}}

\* Users "1" and "2" have a comment each; user "2" has a users row and
\* user "1" has one or not; user "1" has any role or none.
InitUsers ==
  /\ jwtSecret = Secret
  /\ token = Undefined
  /\ origin = NoOrigin
  /\ verified = NotVerified
  /\ verifyMemo = [t \in VoteTokens(Secret) |-> verifyJWT(t, Secret)]
  /\ config = DefaultConfig
  /\ now = 0
  /\ background = {}
  /\ cache = NoCache
  /\ body \in UsersBodies
  /\ comments =
       ("c0" :> InsertedComment(<<50>>, "anilist", "a", ""))
       @@ ("c1" :> InsertedComment(<<49>>, "anilist", "a", ""))
  /\ users \in
       {(<<<<50>>, "anilist">> :> UserRow(0, FALSE, 0)),
        (<<<<50>>, "anilist">> :> UserRow(0, FALSE, 0))
          @@ (<<<<49>>, "anilist">> :> UserRow(1, FALSE, 0))}
  /\ mod_plus \in
       {{}} \cup {{[user_id |-> <<49>>, role |-> role]} : role \in Roles}
  /\ inflight = [r \in ReqSlots |-> Idle]
  /\ voteLog = <<>>
  /\ prevResp = [op |-> "none", status |-> 0, jwt_token |-> Undefined,
                 roleResolved |-> FALSE, queue |-> {}, seq |-> 1]
  /\ resp = [op |-> "none", status |-> 0, jwt_token |-> Undefined,
             roleResolved |-> FALSE, queue |-> {}, seq |-> 0]

NextUsers ==
  \/ \E jwt_token \in SessionTokens : GetUserInfo(jwt_token)
  \/ \E jwt_token \in SessionTokens : GetUserStats(jwt_token)
  \/ \E jwt_token \in SessionTokens : GetUserHistory(jwt_token)
  \/ \E op \in UsersActions, jwt_token \in WriterVoteTokens :
       Serve_part004(op, jwt_token)

SpecUsers == InitUsers /\ [][NextUsers]_vars

(***************************************************************************)
(* Properties of the users endpoint (SpecUsers).                           *)
(***************************************************************************)
\* The actor a token authenticates, as (user id, provider): the holder of
\* a session token, or the uid and ct of a verified {uid, ct} token; none
\* for a token that does not verify.
UsersActor(jwt_token) ==
  IF Authentic(jwt_token) THEN
    {<<Holder(jwt_token), SignedSessions[jwt_token].client_type>>}
  ELSE IF jwt_token \in DOMAIN verifyMemo /\ verifyMemo[jwt_token].valid THEN
    {<<verifyMemo[jwt_token].uid.s, ProviderOfCode(verifyMemo[jwt_token].ct.s)>>}
  ELSE {}

\* The answer to a read of the actor's own data: 200 with the actor's own
\* record of the actor's own provider.
OwnDataReturned(key) ==
  /\ resp'.status = 200
  /\ resp'.user_id = key[1]
  /\ resp'.client_type = key[2]
  /\ resp'.data = IF body.action = "get_user_info" THEN UserData(key)
                  ELSE CommentsOf(key)

\* C17: get_user_info, get_user_stats and get_user_history of an
\* authenticated actor succeed when the target is absent or is the actor,
\* returning the actor's own record of the actor's own provider, and are
\* denied with 403 for another target exactly when the stored role of the
\* actor is below moderator.
C17_SelfAccessAtUserFloor ==
  [][(/\ Answered
      /\ body.endpoint = "users")
     => \A key \in UsersActor(resp'.jwt_token) :
          IF IsSelf(key[1]) THEN OwnDataReturned(key)
          ELSE (resp'.status = 403)
                 <=> (Rank(StoredRole(mod_plus, key[1])) < Rank("moderator"))]_vars

\* No role record is stored for the user.
NoRoleRecord(userId) == {r \in mod_plus : r.user_id = userId} = {}

\* C18: an authenticated actor that has no stored role record, with or
\* without a users row, is treated as role 'user' by the users endpoint:
\* its reads of its own data are answered 200 and its reads of another
\* user are denied with 403; it is never rejected as unknown.
C18_UnknownIdentityIsUser ==
  [][(/\ Answered
      /\ body.endpoint = "users")
     => \A key \in UsersActor(resp'.jwt_token) :
          NoRoleRecord(key[1])
            => resp'.status = IF IsSelf(key[1]) THEN 200 ELSE 403]_vars

(***************************************************************************)
(* Roles per provider.  part_006 lines 4-10 give mod_plus the column       *)
(* client_type and the primary key (user_id, client_type): a user_id holds *)
(* one row for each provider it was given a role on.  getUserRole keeps    *)
(* selecting by user_id alone.                                             *)
(***************************************************************************)
\* INSERT ... ON CONFLICT (user_id, client_type) DO UPDATE SET role.
SetProviderRole(user_id, client_type, role) ==
  /\ mod_plus' = {r \in mod_plus :
                    ~(r.user_id = user_id /\ r.client_type = client_type)}
                   \cup {[user_id |-> user_id, client_type |-> client_type,
                          role |-> role]}
  /\ UNCHANGED <<codecVars, config, now, comments, users, voteVars, background, cache, reqVars, resp>>

\* DELETE FROM mod_plus WHERE user_id = .. AND client_type = ..
RemoveProviderRole(user_id, client_type) ==
  /\ \E r \in mod_plus : r.user_id = user_id /\ r.client_type = client_type
  /\ mod_plus' = {r \in mod_plus :
                    ~(r.user_id = user_id /\ r.client_type = client_type)}
  /\ UNCHANGED <<codecVars, config, now, comments, users, voteVars, background, cache, reqVars, resp>>

\* The providers user "1" is given roles on.
RoleProviders == {"anilist", "myanimelist"}

\* The reads of the data of user "2".
OtherUserBodies ==
  {b \in UsersBodies : b.target_user_id = <<50>>}

\* User "1" has a users row on anilist and no role on any provider.
InitProvider ==
  /\ jwtSecret = Secret
  /\ token = Undefined
  /\ origin = NoOrigin
  /\ verified = NotVerified
  /\ verifyMemo = [t \in VoteTokens(Secret) |-> verifyJWT(t, Secret)]
  /\ config = DefaultConfig
  /\ now = 0
  /\ background = {}
  /\ cache = NoCache
  /\ body \in OtherUserBodies
  /\ comments =
       ("c0" :> InsertedComment(<<50>>, "anilist", "a", ""))
       @@ ("c1" :> InsertedComment(<<49>>, "anilist", "a", ""))
  /\ users = (<<<<50>>, "anilist">> :> UserRow(0, FALSE, 0))
               @@ (<<<<49>>, "anilist">> :> UserRow(0, FALSE, 0))
  /\ mod_plus = {}
  /\ inflight = [r \in ReqSlots |-> Idle]
  /\ voteLog = <<>>
  /\ prevResp = [op |-> "none", status |-> 0, jwt_token |-> Undefined,
                 roleResolved |-> FALSE, queue |-> {}, seq |-> 1]
  /\ resp = [op |-> "none", status |-> 0, jwt_token |-> Undefined,
             roleResolved |-> FALSE, queue |-> {}, seq |-> 0]

NextProvider ==
  \/ \E client_type \in RoleProviders, role \in Roles :
       SetProviderRole(<<49>>, client_type, role)
  \/ \E client_type \in RoleProviders : RemoveProviderRole(<<49>>, client_type)
  \/ \E jwt_token \in SessionTokens : GetUserInfo(jwt_token)
  \/ \E jwt_token \in SessionTokens : GetUserStats(jwt_token)
  \/ \E jwt_token \in SessionTokens : GetUserHistory(jwt_token)
  \/ \E op \in UsersActions, jwt_token \in WriterVoteTokens :
       Serve_part004(op, jwt_token)

SpecProvider == InitProvider /\ [][NextProvider]_vars

\* The role stored for a user on a provider: 'user' without a row.
ProviderRole(rows, key) ==
  IF \E r \in rows : r.user_id = key[1] /\ r.client_type = key[2]
  THEN (CHOOSE r \in rows : r.user_id = key[1] /\ r.client_type = key[2]).role
  ELSE "user"

\* C19: whether the read of another user's data by an actor authenticated
\* on provider P is allowed depends only on the role stored for
\* (subject_id, P): it is denied with 403 exactly when that role is below
\* moderator, whatever rows the same subject_id has under other providers.
C19_RolePerProvider ==
  [][(/\ Answered
      /\ body.endpoint = "users")
     => \A key \in UsersActor(resp'.jwt_token) :
          (resp'.status = 403)
            <=> (Rank(ProviderRole(mod_plus, key)) < Rank("moderator"))]_vars

(***************************************************************************)
(* The life of a token.  A token is issued at login; afterwards time       *)
(* passes, its subject is banned or loses its role, JWT_SECRET             *)
(* is replaced or removed in the environment, and at some point the token  *)
(* is presented and verifyJWT reads the secret then in force (part_001     *)
(* line 123).                                                              *)
(***************************************************************************)
\* The value JWT_SECRET is replaced by: "r0t4t3d".
RotatedSecret == <<114, 48, 116, 52, 116, 51, 100>>

SecretValues == {Secret, RotatedSecret, Unset}

\* JWT_SECRET is given another value, or removed.
RotateSecret(secret) ==
  /\ secret # jwtSecret
  /\ jwtSecret' = secret
  /\ UNCHANGED <<token, origin, verified, verifyMemo, storeVars, voteVars, background, cache, reqVars, resp>>

\* User "1" holds the role moderator and has a users row; user "2" is
\* super_admin and sends ban_user for user "1".
InitRotate ==
  /\ WriteStore
  /\ mod_plus = {[user_id |-> <<50>>, role |-> "super_admin"],
                 [user_id |-> <<49>>, role |-> "moderator"]}

NextRotate ==
  \/ \E userId \in SubjectIds, clientType \in Providers : Generate(userId, clientType)
  \/ \E secret \in SecretValues : RotateSecret(secret)
  \/ Tick
  \/ \E b \in {c \in BanBodies : c.action = "ban_user" /\ ~c.shadow_ban} :
       Receive(b)
  \/ \E jwt_token \in ModeratorTokens : BanUser(jwt_token)
  \/ RemoveRole(<<49>>)
  \/ Verify

SpecRotate == InitRotate /\ [][NextRotate]_vars

(***************************************************************************)
(* Properties of the life of a token (SpecRotate).                         *)
(***************************************************************************)
\* The secrets under which generateJWT gives the issued token.
IssuingSecrets ==
  {secret \in SecretValues \ {Unset} :
     generateJWT(origin.uid, origin.provider, secret).token = token.s}

\* C20: whenever an issued token is presented, after any passage of time,
\* ban of its subject, removal of its subject's role and
\* changes of the secret, verifyJWT accepts it if the secret in force is
\* the one it was issued under and rejects it if the secret is another one
\* or is not set.
C20_TokenValidUntilRotation ==
  [][(/\ origin.kind = "issued"
      /\ ~verified.done
      /\ verified'.done)
     => (verified'.result.valid <=> jwtSecret \in IssuingSecrets)]_vars

\* The token of user "1" was accepted, a day after its issue at the
\* earliest, with its subject banned and without a role.
C20_Witness ==
  /\ origin.kind = "issued"
  /\ origin.uid = <<49>>
  /\ origin.provider = "anilist"
  /\ verified.done
  /\ verified.result.valid
  /\ now > 0
  /\ users[<<<<49>>, "anilist">>].user_banned
  /\ NoRoleRecord(<<49>>)

(***************************************************************************)
(* Warnings.  User "2", a super_admin, warns and unwarns user "1" past     *)
(* every threshold of the configuration.                                   *)
(***************************************************************************)
MaxWarnCount == 11

WarnBodies ==
  {[NoBody EXCEPT !.endpoint = "moderation", !.action = a,
                  !.target_user_id = <<49>>, !.target_client_type = "anilist",
                  !.reason = "spam"] : a \in {"warn_user", "unwarn_user"}}

\* User "1" has no warning; it is banned or not, muted or not, a
\* moderator or not.
InitWarn ==
  /\ jwtSecret = Secret
  /\ token = Undefined
  /\ origin = NoOrigin
  /\ verified = NotVerified
  /\ verifyMemo = <<>>
  /\ config = DefaultConfig
  /\ now = 0
  /\ background = {}
  /\ cache = NoCache
  /\ body \in WarnBodies
  /\ comments = ("c1" :> InsertedComment(<<49>>, "anilist", "a", ""))
  /\ \E banned \in BOOLEAN, muted_until \in {0, 24} :
       users = (<<<<49>>, "anilist">> :> UserRow(0, banned, muted_until))
                 @@ (<<<<50>>, "anilist">> :> UserRow(0, FALSE, 0))
  /\ mod_plus \in
       {{[user_id |-> <<50>>, role |-> "super_admin"]},
        {[user_id |-> <<50>>, role |-> "super_admin"],
         [user_id |-> <<49>>, role |-> "moderator"]}}
  /\ inflight = [r \in ReqSlots |-> Idle]
  /\ voteLog = <<>>
  /\ prevResp = [op |-> "none", status |-> 0, jwt_token |-> Undefined,
                 roleResolved |-> FALSE, queue |-> {}, seq |-> 1]
  /\ resp = [op |-> "none", status |-> 0, jwt_token |-> Undefined,
             roleResolved |-> FALSE, queue |-> {}, seq |-> 0]

NextWarn ==
  \/ \E b \in WarnBodies : Receive(b)
  \/ \E jwt_token \in SessionTokens \cup ModeratorTokens :
       WarnUserBelow(jwt_token, MaxWarnCount)
  \/ \E jwt_token \in SessionTokens \cup ModeratorTokens : UnwarnUser(jwt_token)

SpecWarn == InitWarn /\ [][NextWarn]_vars

\* The users row apart from its warning count.
StatusOf(row) ==
  [user_banned |-> row.user_banned,
   user_shadow_banned |-> row.user_shadow_banned,
   user_muted_until |-> row.user_muted_until]

\* C21: warn_user and unwarn_user change nothing but the warning count of
\* the target: banned, shadow_banned and muted_until of every users row
\* and every role of mod_plus are the same after the request, for every
\* count from 0 to MaxWarnCount, which lies above auto_warn_threshold,
\* auto_mute_threshold and auto_ban_threshold; a successful warn_user adds
\* one to the count and a successful unwarn_user takes one away, down to 0.
C21_WarningsTriggerNothing ==
  [][(/\ Answered
      /\ body.action \in {"warn_user", "unwarn_user"})
     => /\ mod_plus' = mod_plus
        /\ comments' = comments
        /\ DOMAIN users' = DOMAIN users
        /\ \A k \in DOMAIN users :
             /\ StatusOf(users'[k]) = StatusOf(users[k])
             /\ k # TargetKey => users'[k] = users[k]
        /\ users'[TargetKey].user_warnings =
             IF resp'.status # 200 THEN users[TargetKey].user_warnings
             ELSE IF body.action = "warn_user"
               THEN users[TargetKey].user_warnings + 1
             ELSE IF users[TargetKey].user_warnings = 0 THEN 0
             ELSE users[TargetKey].user_warnings - 1]_vars

\* A warning that took the count of user "1" to auto_ban_threshold or
\* above was answered 200, and user "1" is neither banned nor muted.
C21_Witness ==
  /\ resp.op = "warn_user"
  /\ resp.status = 200
  /\ users[<<<<49>>, "anilist">>].user_warnings >= auto_ban_threshold
  /\ users[<<<<49>>, "anilist">>].user_warnings >= auto_mute_threshold
  /\ users[<<<<49>>, "anilist">>].user_warnings >= auto_warn_threshold
  /\ ~users[<<<<49>>, "anilist">>].user_banned
  /\ users[<<<<49>>, "anilist">>].user_muted_until = 0

(***************************************************************************)
(* The promises started and not awaited.  Each one settles on its own      *)
(* after the response: it succeeds, it fails and the failure is logged     *)
(* (.catch, or the try/catch of its body), or it never settles.            *)
(***************************************************************************)
\* updateUserCommentActivity / updateUserVoteActivity (shared/jwt.ts lines
\* 173-235): updated_at of the users row, if there is one.
ActivityUpdated(key) ==
  IF key \in DOMAIN users THEN [users EXCEPT ![key].updated_at = now]
  ELSE users

\* fetchAndCacheMediaInfo (comments/index.ts lines 289-358): the media
\* columns of the comment.
MediaCached(id) ==
  IF id \in DOMAIN comments THEN [comments EXCEPT ![id].media_title = "title"]
  ELSE comments

\* The promise t fulfils: the notification is logged and sent, the users
\* row or the comment is updated.
BackgroundSucceeds(t) ==
  /\ t \in background
  /\ background' = background \ {t}
  /\ users' = IF t.task = "activity" THEN ActivityUpdated(t.key) ELSE users
  /\ comments' = IF t.task = "media" THEN MediaCached(t.id) ELSE comments
  /\ UNCHANGED <<codecVars, config, now, mod_plus, voteVars, reqVars, resp, cache>>

\* Variant of BackgroundFails that turns the last response into a 500.
BackgroundFails_surfaced(t) ==
  /\ t \in background
  /\ background' = background \ {t}
  /\ resp' = [resp EXCEPT !.status = 500]
  /\ UNCHANGED <<codecVars, storeVars, voteVars, reqVars, cache>>

\* The promise t rejects, or its body catches an error: console.error.
BackgroundFails(t) ==
  /\ t \in background
  /\ background' = background \ {t}
  /\ UNCHANGED <<codecVars, storeVars, voteVars, reqVars, resp, cache>>

\* The requests: user "1" creates a comment, edits its comment c1 or
\* reports c0; user "2", a super_admin, bans user "1".
BackgroundBodies ==
  {b \in BanBodies :
     \/ b.action \in {"create", "edit"}
     \/ b.action = "ban_user" /\ ~b.shadow_ban}

\* The token of the votes endpoint issued to user "1".
VoterToken == Str(generateJWT(<<49>>, "anilist", Secret).token)

\* A behaviour holds one body, sent again and again.
InitBackground ==
  /\ jwtSecret = Secret
  /\ token = Undefined
  /\ origin = NoOrigin
  /\ verified = NotVerified
  /\ verifyMemo = [t \in VoteTokens(Secret) |-> verifyJWT(t, Secret)]
  /\ config = DefaultConfig
  /\ now = 0
  /\ background = {}
  /\ cache = NoCache
  /\ body \in BackgroundBodies
  /\ comments =
       ("c0" :> InsertedComment(<<50>>, "anilist", "a", ""))
       @@ ("c1" :> InsertedComment(<<49>>, "anilist", "a", ""))
  /\ users = (<<<<49>>, "anilist">> :> UserRow(0, FALSE, 0))
  /\ mod_plus = {[user_id |-> <<50>>, role |-> "super_admin"]}
  /\ inflight = [r \in ReqSlots |-> Idle]
  /\ voteLog = <<>>
  /\ prevResp = [op |-> "none", status |-> 0, jwt_token |-> Undefined,
                 roleResolved |-> FALSE, queue |-> {}, seq |-> 1]
  /\ resp = [op |-> "none", status |-> 0, jwt_token |-> Undefined,
             roleResolved |-> FALSE, queue |-> {}, seq |-> 0]

NextBackground ==
  \/ Tick
  \/ \E jwt_token \in WriterTokens : CreateComment(jwt_token)
  \/ \E jwt_token \in WriterTokens : EditComment(jwt_token)
  \/ \E jwt_token \in WriterTokens : CreateReport(jwt_token)
  \/ \E jwt_token \in ModeratorTokens : BanUser(jwt_token)
  \/ VoteRequest("r1", "c0", Upvote, VoterToken)
  \/ VoteWrite("r1")
  \/ \E t \in background : BackgroundSucceeds(t)
  \/ \E t \in background : BackgroundFails(t)

SpecBackground == InitBackground /\ [][NextBackground]_vars

(***************************************************************************)
(* Properties of the promises started and not awaited (SpecBackground).    *)
(***************************************************************************)
\* The comments and the users rows apart from the columns the promises
\* write: the media columns and updated_at.
PrimaryComments(rows) ==
  [c \in DOMAIN rows |-> [rows[c] EXCEPT !.media_title = ""]]

PrimaryUsers(rows) ==
  [k \in DOMAIN rows |-> [rows[k] EXCEPT !.updated_at = 0]]

\* C22: the promises a handler starts (notification, media enrichment,
\* activity update) never decide the outcome of the request.  A step in
\* which a promise settles, fulfilled or rejected, leaves the last two
\* responses, the primary columns of comments and users, mod_plus, the
\* votes in flight and the votes answered as they are; and a step that
\* answers a request or writes a vote is taken with every promise started
\* before still pending and with the promises of its own handler pending
\* after it: the response waits for none of them.
C22_BackgroundNeverDecides ==
  [][/\ (background' # background /\ background' \subseteq background)
          => /\ resp' = resp
             /\ prevResp' = prevResp
             /\ PrimaryComments(comments') = PrimaryComments(comments)
             /\ PrimaryUsers(users') = PrimaryUsers(users)
             /\ mod_plus' = mod_plus
             /\ inflight' = inflight
             /\ voteLog' = voteLog
     /\ (resp' # resp \/ voteLog' # voteLog
           \/ PrimaryComments(comments') # PrimaryComments(comments)
           \/ PrimaryUsers(users') # PrimaryUsers(users))
          => /\ background \subseteq background'
             /\ (resp'.op # "vote" /\ prevResp' = resp) =>
                  Started(resp') \subseteq background'
             /\ voteLog' # voteLog =>
                  VoteActivity(inflight["r1"],
                               VoteSwitch(inflight["r1"].comment,
                                          inflight["r1"].userId,
                                          inflight["r1"].vote_type))
                    \subseteq background']_vars

\* The comment c2 was created and answered 201 although its media
\* enrichment failed; its activity update has not settled, its notification
\* has; and the vote of user "1" was written while the enrichment of c2
\* was pending or over.
C22_Witness ==
  /\ "c2" \in DOMAIN comments
  /\ comments["c2"].media_title = ""
  /\ Task("media", "create", "c2", NoKey) \notin background
  /\ Task("activity", "create", "", <<<<49>>, "anilist">>) \in background
  /\ Task("notify", "create", "", NoKey) \notin background
  /\ Len(voteLog) > 0
  /\ resp.status = 200

(***************************************************************************)
(* Properties of the ledger of a comment (SpecVotes).                      *)
(***************************************************************************)
\* No two members of the ledger have the same voter, and every member
\* holds 'upvote' or 'downvote'.
OneEntryEach(entries) ==
  /\ \A i, j \in 1..Len(entries) : entries[i].k = entries[j].k => i = j
  /\ \A i \in 1..Len(entries) : entries[i].v \in {Upvote, Downvote}

\* C23: after any sequence of vote requests, interleaved or not, the
\* ledger of a comment holds at most one entry for each voter, which says
\* upvote or downvote: a voter is upvoted, downvoted or has no vote, and
\* never both upvoted and downvoted.
C23_OneEntryPerVoter ==
  \A c \in DOMAIN comments :
    OneEntryEach(ParseUserVotes(comments[c].user_votes))

\* A voter upvoted and then downvoted comment c1, and the ledger of c1
\* holds one entry, a downvote.
C23_Witness ==
  /\ Len(voteLog) = 2
  /\ voteLog[1].userId = voteLog[2].userId
  /\ voteLog[1].vote_type = Upvote
  /\ voteLog[2].vote_type = Downvote
  /\ VoterState(voteLog[2].read, voteLog[2].userId) = "upvoted"
  /\ Len(ParseUserVotes(comments["c1"].user_votes)) = 1
  /\ VoterState(comments["c1"], voteLog[2].userId) = "downvoted"

\* The last two answered requests are by one voter with one direction,
\* the first read a row in which the voter has no vote, and the second
\* read the row the first wrote.
CastTwice ==
  /\ Len(voteLog) >= 2
  /\ voteLog[Len(voteLog) - 1].userId = voteLog[Len(voteLog)].userId
  /\ voteLog[Len(voteLog) - 1].comment_id = voteLog[Len(voteLog)].comment_id
  /\ voteLog[Len(voteLog)].vote_type \in {Upvote, Downvote}
  /\ voteLog[Len(voteLog) - 1].vote_type = voteLog[Len(voteLog)].vote_type
  /\ VoterState(voteLog[Len(voteLog) - 1].read,
                voteLog[Len(voteLog)].userId) = "no-vote"
  /\ SameVotes(voteLog[Len(voteLog)].read,
               VotedRow(voteLog[Len(voteLog) - 1].read,
                        voteLog[Len(voteLog) - 1]))

\* C24: for either direction d in {upvote, downvote} and any ledger in
\* which the voter has no vote, d and then d again by the same voter
\* restore the ledger, upvotes, downvotes and vote_score of the comment to
\* their values before the first of the two requests.
C24_SameDirectionTwiceRestores ==
  CastTwice =>
    SameVotes(comments[voteLog[Len(voteLog)].comment_id],
              voteLog[Len(voteLog) - 1].read)

\* A voter downvoted twice a comment on which the other voter has an
\* upvote: the ledger holds that upvote alone again.
C24_Witness ==
  /\ Len(voteLog) = 3
  /\ CastTwice
  /\ voteLog[3].vote_type = Downvote
  /\ voteLog[2].read.upvotes = 1
  /\ comments["c1"].upvotes = 1
  /\ comments["c1"].downvotes = 0
  /\ VoterState(comments["c1"], voteLog[3].userId) = "no-vote"

\* Token t verifies and its subject is the author of comment c.
AuthorsToken(t, c) ==
  /\ Truthy(t)
  /\ verifyMemo[t].valid
  /\ verifyMemo[t].uid.s = comments[c].user_id

\* Request q is a vote of the author of the comment it read.
SelfVote(q) == q.userId.s = q.comment.user_id

verifyJWT_sharedForVotes(jwt_token, secret) ==
  IF verifyJWT_djwt(jwt_token, secret).valid
  THEN [valid |-> TRUE, threw |-> FALSE, uid |-> Undefined, ct |-> Undefined]
  ELSE NullPayload

\* The tokens issued at login to the subject userId: by generateJWT of
\* part_001, and by generateJWT of shared/jwt.ts.
IssuedTo(userId) ==
  {Str(generateJWT(userId, "anilist", Secret).token)}
    \cup {t \in DOMAIN SignedSessions : SignedSessions[t].user_id = userId}

LedgerTokens == UNION {IssuedTo(v) : v \in VoterIds}

InitLedger ==
  /\ jwtSecret = Secret
  /\ token = Undefined
  /\ origin = NoOrigin
  /\ verified = NotVerified
  /\ verifyMemo \in {[t \in LedgerTokens |-> verifyJWT(t, Secret)],
                     [t \in LedgerTokens |-> verifyJWT_sharedForVotes(t, Secret)]}
  /\ config = DefaultConfig
  /\ now = 0
  /\ background = {}
  /\ cache = NoCache
  /\ comments = [c \in {"c1"} |-> NewComment(<<49>>, "anilist", JNull)]
  /\ users = <<>>
  /\ mod_plus = {}
  /\ inflight = [r \in ReqSlots |-> Idle]
  /\ voteLog = <<>>
  /\ body = NoBody
  /\ prevResp = NoResponse
  /\ resp = NoResponse

NextLedger ==
  \/ \E r \in ReqSlots, vote_type \in validVoteTypes, jwt_token \in DOMAIN verifyMemo :
       VoteRequest(r, "c1", vote_type, jwt_token)
  \/ \E r \in ReqSlots : VoteWrite(r)

SpecLedger == InitLedger /\ [][NextLedger]_vars

\* The entry of voter userId in the ledger of a row.
EntryOf(row, userId) == ObjGet(ParseUserVotes(row.user_votes), userId)

\* C30: a vote request changes only its own voter's ledger entry: the
\* ledger key of a token that verifies is the subject id the token was
\* issued for, so that tokens of distinct subjects have distinct keys, and
\* the write of a request leaves the entry of every other voter as it was.
C30_OnlyOwnEntry ==
  [][/\ \A v \in VoterIds : \A t \in IssuedTo(v) :
          verifyMemo[t].valid => ToPropertyKey(verifyMemo[t].uid) = v
     /\ \A r \in ReqSlots :
          (inflight[r].pc = "read" /\ inflight'[r].pc = "idle") =>
            \A v \in VoterIds :
              v # ToPropertyKey(inflight[r].userId) =>
                EntryOf(comments'[inflight[r].comment_id], v)
                  = EntryOf(comments[inflight[r].comment_id], v)]_vars

(***************************************************************************)
(* Edits.  Comment c1 was written by user "1" or "2" on anilist or on      *)
(* myanimelist; it is deleted or not, locked or not.  User "1", logged in  *)
(* on anilist, is a moderator or has no role.                              *)
(***************************************************************************)
MaxEditCount == 2

EditBodies ==
  {[NoBody EXCEPT !.endpoint = "comments", !.action = "edit",
                  !.comment_id = c, !.content = text] :
     c \in {"c1", "c9"}, text \in {"", "b", "c"}}

InitEdit ==
  /\ jwtSecret = Secret
  /\ token = Undefined
  /\ origin = NoOrigin
  /\ verified = NotVerified
  /\ verifyMemo = <<>>
  /\ config = DefaultConfig
  /\ now = 0
  /\ background = {}
  /\ cache = NoCache
  /\ body \in EditBodies
  /\ \E author \in ActorIds, provider \in {"anilist", "myanimelist"},
        deleted \in BOOLEAN, locked \in BOOLEAN :
       comments = ("c1" :> [InsertedComment(author, provider, "a", "")
                              EXCEPT !.deleted = deleted, !.locked = locked])
  /\ users = (<<<<49>>, "anilist">> :> UserRow(0, FALSE, 0))
  /\ mod_plus \in {{}, {[user_id |-> <<49>>, role |-> "moderator"]}}
  /\ inflight = [r \in ReqSlots |-> Idle]
  /\ voteLog = <<>>
  /\ prevResp = [op |-> "none", status |-> 0, jwt_token |-> Undefined,
                 roleResolved |-> FALSE, queue |-> {}, seq |-> 1]
  /\ resp = [op |-> "none", status |-> 0, jwt_token |-> Undefined,
             roleResolved |-> FALSE, queue |-> {}, seq |-> 0]

NextEdit ==
  \/ \E b \in EditBodies : Receive(b)
  \/ \E jwt_token \in SessionTokens : EditCommentBelow(jwt_token, MaxEditCount)

SpecEdit == InitEdit /\ [][NextEdit]_vars

\* The holder of jwt_token is the author of row: the user of that id on
\* that provider.
IsAuthor(jwt_token, row) ==
  /\ jwt_token \in DOMAIN SignedSessions
  /\ SignedSessions[jwt_token].user_id = row.user_id
  /\ SignedSessions[jwt_token].client_type = row.client_type

\* The role stored for the holder of jwt_token is moderator or above.
StoredModerator(jwt_token) ==
  /\ jwt_token \in DOMAIN SignedSessions
  /\ \E m \in mod_plus :
       /\ m.user_id = SignedSessions[jwt_token].user_id
       /\ m.role \in {"moderator", "admin", "super_admin"}

\* row can be edited to content.
Edited(row, content) ==
  /\ content # ""
  /\ ~row.deleted
  /\ ~row.locked

\* C26: an edit succeeds only when the actor is the author of the comment
\* or has a stored role of at least moderator, and the comment is neither
\* deleted nor locked; then edit_count grows by one and the history gains
\* one entry with the old and the new content.  Every other edit request
\* is rejected and leaves content, edit_count and history as they were.
C26_EditByAuthorOrModerator ==
  [][(Answered /\ body.endpoint = "comments" /\ body.action = "edit") =>
       IF resp'.status = 200 THEN
         /\ body.comment_id \in DOMAIN comments
         /\ \/ IsAuthor(resp'.jwt_token, comments[body.comment_id])
            \/ StoredModerator(resp'.jwt_token)
         /\ Edited(comments[body.comment_id], body.content)
         /\ comments'[body.comment_id].content = body.content
         /\ comments'[body.comment_id].edit_count =
              comments[body.comment_id].edit_count + 1
         /\ Len(comments'[body.comment_id].edit_history) =
              Len(comments[body.comment_id].edit_history) + 1
         /\ SubSeq(comments'[body.comment_id].edit_history, 1,
                   Len(comments[body.comment_id].edit_history))
              = comments[body.comment_id].edit_history
         /\ comments'[body.comment_id].edit_history[
              Len(comments'[body.comment_id].edit_history)].oldContent
              = comments[body.comment_id].content
         /\ comments'[body.comment_id].edit_history[
              Len(comments'[body.comment_id].edit_history)].newContent
              = body.content
       ELSE comments' = comments]_vars

(***************************************************************************)
(* Locked threads.  Comment c1 of user "2" is locked, as lock_thread of    *)
(* user "2", a super_admin, left it; user "1" replies to it, and it is     *)
(* unlocked and locked again.                                              *)
(***************************************************************************)
LockBodies ==
  {[CreateBody EXCEPT !.parent_id = "c1", !.content = text] : text \in {"", "b"}}
  \cup {[NoBody EXCEPT !.endpoint = "moderation", !.action = a,
                       !.comment_id = "c1", !.reason = "heated"] :
          a \in {"lock_thread", "unlock_thread"}}

InitLock ==
  /\ jwtSecret = Secret
  /\ token = Undefined
  /\ origin = NoOrigin
  /\ verified = NotVerified
  /\ verifyMemo = <<>>
  /\ config \in {DefaultConfig, [DefaultConfig EXCEPT !.system_enabled = FALSE]}
  /\ now = 0
  /\ background = {}
  /\ cache = NoCache
  /\ body \in LockBodies
  /\ comments = ("c1" :> [InsertedComment(<<50>>, "anilist", "a", "")
                            EXCEPT !.locked = TRUE, !.locked_by = <<50>>,
                                   !.moderated = TRUE, !.moderated_by = <<50>>,
                                   !.moderation_action = "lock_thread",
                                   !.moderation_reason = "heated"])
  /\ \E banned \in BOOLEAN, muted_until \in {0, 24} :
       users = (<<<<49>>, "anilist">> :> UserRow(0, banned, muted_until))
  /\ mod_plus = {[user_id |-> <<50>>, role |-> "super_admin"]}
  /\ inflight = [r \in ReqSlots |-> Idle]
  /\ voteLog = <<>>
  /\ prevResp = [op |-> "none", status |-> 0, jwt_token |-> Undefined,
                 roleResolved |-> FALSE, queue |-> {}, seq |-> 1]
  /\ resp = [op |-> "none", status |-> 0, jwt_token |-> Undefined,
             roleResolved |-> FALSE, queue |-> {}, seq |-> 0]

NextLock ==
  \/ \E b \in LockBodies : Receive(b)
  \/ \E jwt_token \in SessionTokens : CreateComment(jwt_token)
  \/ \E jwt_token \in WriterTokens \cup ModeratorTokens : LockThread(jwt_token)
  \/ \E jwt_token \in WriterTokens \cup ModeratorTokens : UnlockThread(jwt_token)

SpecLock == InitLock /\ [][NextLock]_vars

\* The request carries a token that verifies and the required fields, and
\* the comment system is enabled: it reaches the checks of the user and of
\* the parent.
ReachesChecks(jwt_token) ==
  /\ jwt_token \in DOMAIN SignedSessions
  /\ body.content # ""
  /\ body.media_id # ""
  /\ config.system_enabled

\* The user of jwt_token is neither banned nor muted.
Unrestricted(jwt_token) ==
  LET k == <<SignedSessions[jwt_token].user_id,
             SignedSessions[jwt_token].client_type>>
  IN k \in DOMAIN users =>
       (~users[k].user_banned /\ users[k].user_muted_until <= now)

\* The comments of rows that name c as their parent.
RepliesTo(rows, c) == {id \in DOMAIN rows : rows[id].parent_id = c}

QueueBodies ==
  {[NoBody EXCEPT !.endpoint = "reports", !.action = "create",
                  !.comment_id = "c1", !.reporter_info = "valid",
                  !.reporter_id = who, !.reason = "spam"] :
     who \in {<<49>>, <<51>>}}
  \cup
  {[NoBody EXCEPT !.endpoint = "reports", !.action = "resolve",
                  !.comment_id = "c1", !.report_id = id, !.resolution = r] :
     id \in {"r1", "r2"}, r \in {"resolved", "dismissed"}}
  \cup
  {[NoBody EXCEPT !.endpoint = "reports", !.action = "get_queue"]}

InitQueue ==
  /\ jwtSecret = Secret
  /\ token = Undefined
  /\ origin = NoOrigin
  /\ verified = NotVerified
  /\ verifyMemo = <<>>
  /\ config = DefaultConfig
  /\ now = 0
  /\ background = {}
  /\ cache = NoCache
  /\ body \in QueueBodies
  /\ comments = ("c1" :> InsertedComment(<<49>>, "anilist", "a", ""))
  /\ users = (<<<<49>>, "anilist">> :> UserRow(0, FALSE, 0))
  /\ mod_plus = {[user_id |-> <<50>>, role |-> "super_admin"]}
  /\ inflight = [r \in ReqSlots |-> Idle]
  /\ voteLog = <<>>
  /\ prevResp = [op |-> "none", status |-> 0, jwt_token |-> Undefined,
                 roleResolved |-> FALSE, queue |-> {}, seq |-> 1]
  /\ resp = [op |-> "none", status |-> 0, jwt_token |-> Undefined,
             roleResolved |-> FALSE, queue |-> {}, seq |-> 0]

NextQueue ==
  \/ \E b \in QueueBodies : Receive(b)
  \/ \E jwt_token \in WriterTokens : CreateReport(jwt_token)
  \/ \E jwt_token \in WriterTokens \cup ModeratorTokens : ResolveReport(jwt_token)
  \/ \E jwt_token \in WriterTokens \cup ModeratorTokens : ReportsGetQueue(jwt_token)

SpecQueue == InitQueue /\ [][NextQueue]_vars

\* The comments that hold a report whose status is 'pending'.
WithPendingReport ==
  {c \in DOMAIN comments :
     \E i \in 1..Len(comments[c].reports) :
       comments[c].reports[i].status = "pending"}

\* C29: the queue loses no pending report: get_queue, answered 200,
\* returns every comment that holds a report whose status is 'pending',
\* also after one of several reports of the comment was resolved; and
\* report_count of a comment is the number of its stored reports.
C29_QueueKeepsPending ==
  [][/\ \A c \in DOMAIN comments :
          comments[c].report_count = Len(comments[c].reports)
     /\ (/\ Answered
         /\ body.action = "get_queue"
         /\ resp'.status = 200) => WithPendingReport \subseteq resp'.queue]_vars

(***************************************************************************)
(* The config cache (shared/configCache.ts).  Times are in seconds.  Of    *)
(* the twelve keys that refreshCacheSync writes, voting_enabled is kept;   *)
(* cachedConfigs is the set of its <<key, value>> members.  An instance    *)
(* reads its environment as it was started: env keeps its value.           *)
(***************************************************************************)
\* configCache.ttl (line 15), 60000 ms.
ttl == 60

\* configCache.tlt (lines 44, 68): configCache has the members data,
\* lastFetch, ttl and fetching, so the value read is undefined.
configCache_tlt == "undefined"

\* a > b where b is a number or undefined: undefined converts to NaN and
\* every comparison with NaN is false.
GreaterThan(a, b) == IF b = "undefined" THEN FALSE ELSE a > b

MaxClock == 180

ClockStep == 30

ConfigKeys == {"voting_enabled", "theme"}

\* DEFAULT_CONFIGS[key] ?? null (lines 25-38).
DEFAULT_CONFIGS(key) == IF key = "voting_enabled" THEN "true" ELSE "null"

\* getEnvBool(key, defaultValue) (lines 135-141) for a value in lower case.
getEnvBool(value, defaultValue) ==
  IF value = "undefined" THEN defaultValue
  ELSE IF value = "true" THEN "true" ELSE "false"

\* refreshCacheSync (lines 102-126): the function has no await, so it runs
\* to its end when it is called.
refreshCacheSync(c) ==
  [c EXCEPT !.cachedConfigs = {<<"voting_enabled", getEnvBool(c.env, "true")>>},
            !.cacheTimestamp = c.dateNow]

\* triggerBackgroundRefresh (lines 91-99); the callback of finally, which
\* resets isRefreshing, runs after the caller has gone on.
triggerBackgroundRefresh(c) ==
  IF c.isRefreshing THEN c
  ELSE [refreshCacheSync(c) EXCEPT !.isRefreshing = TRUE]

\* Lines 43-49 and 67-73.
isStale(c) == GreaterThan(c.dateNow - c.cacheTimestamp, configCache_tlt)

StaleCheck(c) ==
  IF isStale(c) /\ ~c.isRefreshing THEN triggerBackgroundRefresh(c) ELSE c

\* cachedConfigs[key] ?? DEFAULT_CONFIGS[key] ?? null
CachedOrDefault(c, key) ==
  IF \E m \in c.cachedConfigs : m[1] = key
  THEN (CHOOSE m \in c.cachedConfigs : m[1] = key)[2]
  ELSE DEFAULT_CONFIGS(key)

Called(c, fn, key, awaited) ==
  [c EXCEPT !.call = [fn |-> fn, key |-> key,
                      returned |-> CachedOrDefault(c, key),
                      awaited |-> awaited, seq |-> 1 - c.call.seq]]

\* getConfig (lines 42-62).
getConfig(c, key) ==
  IF \E m \in StaleCheck(c).cachedConfigs : m[1] = key
  THEN Called(StaleCheck(c), "getConfig", key, FALSE)
  ELSE IF StaleCheck(c).cachedConfigs = {}
  THEN Called(refreshCacheSync(StaleCheck(c)), "getConfig", key, TRUE)
  ELSE Called(StaleCheck(c), "getConfig", key, FALSE)

\* getConfigs (lines 66-88) for keys = [key].
getConfigs(c, key) ==
  IF StaleCheck(c).cachedConfigs = {}
  THEN Called(refreshCacheSync(StaleCheck(c)), "getConfigs", key, TRUE)
  ELSE Called(StaleCheck(c), "getConfigs", key, FALSE)

\* forceRefreshCache (lines 129-132).
forceRefreshCache(c) == refreshCacheSync([c EXCEPT !.cacheTimestamp = 0])

cacheFrame ==
  UNCHANGED <<codecVars, storeVars, voteVars, reqVars, resp, background>>

GetConfig(key) ==
  /\ cache' = getConfig(cache, key)
  /\ cacheFrame

GetConfigs(key) ==
  /\ cache' = getConfigs(cache, key)
  /\ cacheFrame

ForceRefreshCache ==
  /\ cache.cacheTimestamp # cache.dateNow
  /\ cache' = forceRefreshCache(cache)
  /\ cacheFrame

\* The clock of the instance goes on.
CacheTick ==
  /\ cache.dateNow + ClockStep <= MaxClock
  /\ cache' = [cache EXCEPT !.dateNow = cache.dateNow + ClockStep]
  /\ cacheFrame

InitCache ==
  /\ jwtSecret = Secret
  /\ token = Undefined
  /\ origin = NoOrigin
  /\ verified = NotVerified
  /\ verifyMemo = <<>>
  /\ config = DefaultConfig
  /\ now = 0
  /\ background = {}
  /\ \E value \in {"undefined", "true", "false"} :
       cache = [NoCache EXCEPT !.env = value, !.dateNow = ClockStep]
  /\ body = NoBody
  /\ comments = <<>>
  /\ users = <<>>
  /\ mod_plus = {}
  /\ inflight = [r \in ReqSlots |-> Idle]
  /\ voteLog = <<>>
  /\ prevResp = NoResponse
  /\ resp = NoResponse

NextCache ==
  \/ \E key \in ConfigKeys : GetConfig(key)
  \/ \E key \in ConfigKeys : GetConfigs(key)
  \/ ForceRefreshCache
  \/ CacheTick

SpecCache == InitCache /\ [][NextCache]_vars

\* C28: a call of getConfig or getConfigs made when the cached data is
\* older than the TTL of 60 seconds and no refresh is in flight returns
\* the cached value without awaiting a refresh, and starts a refresh in
\* the background: isRefreshing is set, or the refresh has already renewed
\* the timestamp of the cache.
C28_StaleWhileRevalidate ==
  [][(/\ cache'.call.seq # cache.call.seq
      /\ cache.cachedConfigs # {}
      /\ cache.dateNow - cache.cacheTimestamp > ttl
      /\ ~cache.isRefreshing) =>
       /\ ~cache'.call.awaited
       /\ cache'.call.returned = CachedOrDefault(cache, cache'.call.key)
       /\ \/ cache'.isRefreshing
          \/ cache'.cacheTimestamp = cache.dateNow]_vars

=============================================================================
